---- MODULE Spec2Model ----
(***************************************************************************)
(* Model of the local key-value DB (src/unnamed/part_000 with              *)
(* src/localStorage.go and src/utils.go): the in-memory map, the snapshot  *)
(* file, the request queues, the write worker, the read worker, the        *)
(* cleanup worker, Close, and a second handle opening the same path.       *)
(*                                                                         *)
(* Granularity: a goroutine's step runs from one point where another       *)
(* goroutine can interfere to the next.  An operation of a worker is two   *)
(* steps: Begin (receive, getLock, Lock, validation, capacity check and    *)
(* the in-memory mutation, up to the call of Sync) and End (the return of  *)
(* Sync, the rollback, Unlock and the response).  The clock is discrete    *)
(* (seconds) and does not advance inside a step.                           *)
(***************************************************************************)
EXTENDS Integers, Sequences, FiniteSets, TLC

\* ------------------------------------------------------------------ bounds
MaxTime == 2
NumValues == 2
MaxCalls == 2
QueueCap == 2
MaxSweeps == 1
MaxReopenCalls == 3
MaxLifeCalls == 2
MaxWriteCalls == 3

\* ------------------------------------------------------- program constants
BatchLimit == 500
EntrySizeLimitMB == 16
StorageLimitMB == 1024
KB == 1024
MaxKeyLen == 32

\* --------------------------------------------------------------- the inputs
Keys == {"a", "b"}
Values == 1..NumValues
TtlStrings == {"", "1"}
Callers == {"c1", "c2", "c3"}

\* Keys at the length limit: Key32 and Key33 are keys of 32 and 33 ASCII
\* characters; Key32Wide stands for a key of 32 characters each of which is
\* encoded in two bytes (each written W here).
Key32 == "abcdefghijklmnopqrstuvwxyz012345"

Key33 == Key32 \o "6"

Key32Wide == "WWWWWWWWWWWWWWWWWWWWWWWWWWWWWWWW"

WideKeys == {Key32Wide}

LongKeys == {Key32, Key33, Key32Wide}

\* len(key) of Go: the number of bytes of the string.
ByteLen(key) == IF key \in WideKeys THEN 2 * Len(key) ELSE Len(key)

\* The keys an operation may carry; a BatchCreate carries the key "".
LockKeys == Keys \cup LongKeys \cup {""}

\* The zero value of DbData[T]: what db.data[key] yields for an absent key.
ZeroEntry == [value |-> 0, ttl |-> "", created_at |-> 0]

\* NewDbData: Created_at is time.Now() at construction.
NewDbData(v, ttlSeconds, t) == [value |-> v, ttl |-> ttlSeconds, created_at |-> t]

\* ------------------------------------------------------------ Go map helpers
EmptyMap == [k \in {} |-> ZeroEntry]

Has(d, k) == k \in DOMAIN d

Get(d, k) == IF k \in DOMAIN d THEN d[k] ELSE ZeroEntry

Put(d, k, e) == [x \in DOMAIN d \cup {k} |-> IF x = k THEN e ELSE d[x]]

Remove(d, k) == [x \in DOMAIN d \ {k} |-> d[x]]

RemoveAll(d, ks) == [x \in DOMAIN d \ ks |-> d[x]]

PutAll(d, m) == [x \in DOMAIN d \cup DOMAIN m |-> IF x \in DOMAIN m THEN m[x] ELSE d[x]]

\* ------------------------------------------------------------------- errors
Nil == "nil"
SyncErr == "SyncError"
KeySizeExceedsLimit == "KeySizeExceedsLimit"
EntryAlreadyExists == "EntryAlreadyExists"
JsonSizeExceedsLimit == "JsonSizeExceedsLimit"
NotAvailabeSpace == "NotAvailabeSpace"
BatchLimitCountExceeds == "BatchLimitCountExceeds"
BatchSizeLimitCrossed == "BatchSizeLimitCrossed"
KeyExpired == "KeyExpired"
KeyNotFound == "KeyNotFound"
EntryNotExists == "EntryNotExists"
EntryExpired == "EntryExpired"
DBAlreadyClosed == "DBAlreadyClosed"
LockedByAnotherProcess == "file is locked by another process"

\* ------------------------------------------------------------------- expiry
\* strconv.Atoi on the ttl strings of the model: decimal digits, else an error.
Atoi(s) ==
  CASE s = "0" -> [ok |-> TRUE, n |-> 0]
    [] s = "1" -> [ok |-> TRUE, n |-> 1]
    [] s = "2" -> [ok |-> TRUE, n |-> 2]
    [] s = "3" -> [ok |-> TRUE, n |-> 3]
    [] OTHER -> [ok |-> FALSE, n |-> 0]

\* time.Now().After(created_at + seconds): strictly after.
\* IsExpired that counts the last second of the lifetime as expired.
IsExpired_AtDeadline(d, key, t) ==
  LET e == Get(d, key) IN
  IF e.ttl = "" THEN FALSE
  ELSE IF ~Atoi(e.ttl).ok THEN FALSE
  ELSE t >= e.created_at + Atoi(e.ttl).n

IsExpired(d, key, t) ==
  LET e == Get(d, key) IN
  IF e.ttl = "" THEN FALSE
  ELSE IF ~Atoi(e.ttl).ok THEN FALSE
  ELSE t > e.created_at + Atoi(e.ttl).n

\* --------------------------------------------------------------- JSON sizes
\* len(json.Marshal(entry)): {"value":V,"ttl":"T","created_at":"<RFC3339Nano>"}
\* with a value of the model rendered as a string of `value` characters.
JsonLen(e) == 67 + e.value + Len(e.ttl)

\* The bytes one key of the map adds to the document: "key":entry and a comma.
KeyJsonLen(m, k) == ByteLen(k) + 4 + JsonLen(m[k])

\* The sum of KeyJsonLen over the keys ks, taken by groups of equal length.
RECURSIVE MapJsonLenOver(_, _)
MapJsonLenOver(m, ks) ==
  IF ks = {} THEN 0
  ELSE LET n == KeyJsonLen(m, CHOOSE x \in ks : TRUE)
           same == {x \in ks : KeyJsonLen(m, x) = n}
       IN n * Cardinality(same) + MapJsonLenOver(m, ks \ same)

\* len(json.Marshal(map)): braces, and per entry "key":entry and a comma.
MapJsonLen(m) == 2 + MapJsonLenOver(m, DOMAIN m) - (IF DOMAIN m = {} THEN 0 ELSE 1)

\* ------------------------------------------------------------ snapshot file
\* The file holds the JSON document of the map: per key an object with the
\* fields value, ttl, created_at (here a tuple in that order), or, after a
\* write that failed past the truncation of os.Create, a partial document.
EncodeEntry(e) == <<e.value, e.ttl, e.created_at>>

\* DecodeEntry that does not read the creation time.
DecodeEntry_NoTime(j) == [value |-> j[1], ttl |-> j[2], created_at |-> 0]

DecodeEntry(j) == [value |-> j[1], ttl |-> j[2], created_at |-> j[3]]

Encode(d) == [partial |-> FALSE, doc |-> [k \in DOMAIN d |-> EncodeEntry(d[k])]]

Decode(f) == [k \in DOMAIN f.doc |-> DecodeEntry(f.doc[k])]

Partial == [partial |-> TRUE, doc |-> Encode(EmptyMap).doc]

SyncOutcomes == {"ok", "createFails", "encodeFails"}

\* LocalStorage.Sync: os.Create truncates, Encode writes the whole map.
Sync(f, d, outcome) ==
  CASE outcome = "ok" -> [file |-> Encode(d), err |-> Nil]
    [] outcome = "createFails" -> [file |-> f, err |-> SyncErr]
    [] OTHER -> [file |-> Partial, err |-> SyncErr]

\* LocalStorage.Load: decodes the document into the given map (json decoding
\* into a non-nil map keeps the entries already there); a decode error leaves
\* the map as it is.
Load(into, f) ==
  IF f.partial THEN [data |-> into, err |-> "DecodeError"]
  ELSE [data |-> PutAll(into, Decode(f)), err |-> Nil]

\* LocalStorage.getFileSizeInKB, in bytes: the document and Encode's newline.
FileBytes(f) == IF f.partial THEN 0 ELSE MapJsonLen(Decode(f)) + 1

\* ------------------------------------------------------- capacity accountant
\* isValidJson: BytesToKB(len) > EntrySizeLimitMB*KB, compared in bytes.
isValidJson(e) ==
  IF JsonLen(e) > EntrySizeLimitMB * KB * KB
  THEN [size |-> JsonLen(e), err |-> JsonSizeExceedsLimit]
  ELSE [size |-> JsonLen(e), err |-> Nil]

\* checkAvailableSpace: FileSizekB + entrySizeKB > StorageLimitMB*KB, in bytes.
checkAvailableSpace(f, entryBytes) == ~(FileBytes(f) + entryBytes > StorageLimitMB * KB * KB)

\* --------------------------------------------------------- operation engine
\* What an engine function has done when it reaches its call of Sync, or when
\* it returns without one: the map as mutated, whether Sync is called, the
\* rollback to apply if Sync fails, the error returned when Sync succeeds and
\* when it fails, and the value returned.
NoUndo == [kind |-> "none", keys |-> {}, entry |-> ZeroEntry]

UndoDelete(ks) == [kind |-> "del", keys |-> ks, entry |-> ZeroEntry]

UndoPut(k, e) == [kind |-> "put", keys |-> {k}, entry |-> e]

Returns(d, err, v) ==
  [data |-> d, sync |-> FALSE, undo |-> NoUndo, ok |-> err, fail |-> err, value |-> v]

Syncs(d, undo, okErr, failErr) ==
  [data |-> d, sync |-> TRUE, undo |-> undo, ok |-> okErr, fail |-> failErr, value |-> ZeroEntry]

\* The rollback of a failed Sync, applied to the map as it is then.
ApplyUndo(d, undo) ==
  CASE undo.kind = "del" -> RemoveAll(d, undo.keys)
    [] undo.kind = "put" -> Put(d, CHOOSE k \in undo.keys : TRUE, undo.entry)
    [] OTHER -> d

\* deleteEntry that does not put the entry back when Sync fails.
deleteEntry_NoRollback(d, key, okErr, failErr) ==
  Syncs(Remove(d, key), NoUndo, okErr, failErr)

\* deleteEntry: delete, Sync, and put the entry back if Sync fails.
deleteEntry(d, key, okErr, failErr) ==
  Syncs(Remove(d, key), UndoPut(key, Get(d, key)), okErr, failErr)

\* isEntryValid without the lookup of the key in the map.
isEntryValid_NoExistsCheck(d, key, value, t) ==
  IF ByteLen(key) > MaxKeyLen
  THEN [size |-> 0, err |-> KeySizeExceedsLimit, evict |-> FALSE]
  ELSE IF isValidJson(value).err # Nil
  THEN [size |-> 0, err |-> isValidJson(value).err, evict |-> FALSE]
  ELSE [size |-> isValidJson(value).size, err |-> Nil, evict |-> FALSE]

\* isEntryValid without the test of the key's length.
isEntryValid_NoKeyCheck(d, key, value, t) ==
  IF Has(d, key)
  THEN [size |-> 0, err |-> EntryAlreadyExists, evict |-> IsExpired(d, key, t)]
  ELSE IF isValidJson(value).err # Nil
  THEN [size |-> 0, err |-> isValidJson(value).err, evict |-> FALSE]
  ELSE [size |-> isValidJson(value).size, err |-> Nil, evict |-> FALSE]

\* isEntryValid that measures the entry stored under the key, not the value.
isEntryValid_SizeOfStored(d, key, value, t) ==
  IF ByteLen(key) > MaxKeyLen
  THEN [size |-> 0, err |-> KeySizeExceedsLimit, evict |-> FALSE]
  ELSE IF Has(d, key)
  THEN [size |-> 0, err |-> EntryAlreadyExists, evict |-> IsExpired(d, key, t)]
  ELSE IF isValidJson(Get(d, key)).err # Nil
  THEN [size |-> 0, err |-> isValidJson(Get(d, key)).err, evict |-> FALSE]
  ELSE [size |-> isValidJson(Get(d, key)).size, err |-> Nil, evict |-> FALSE]

\* isEntryValid: the size of the value, or the error; evict says that the
\* key was present and expired, in which case deleteEntry has been called.
isEntryValid(d, key, value, t) ==
  IF ByteLen(key) > MaxKeyLen
  THEN [size |-> 0, err |-> KeySizeExceedsLimit, evict |-> FALSE]
  ELSE IF Has(d, key)
  THEN [size |-> 0, err |-> EntryAlreadyExists, evict |-> IsExpired(d, key, t)]
  ELSE IF isValidJson(value).err # Nil
  THEN [size |-> 0, err |-> isValidJson(value).err, evict |-> FALSE]
  ELSE [size |-> isValidJson(value).size, err |-> Nil, evict |-> FALSE]

\* The return of a caller of isEntryValid on its error: the eviction's Sync
\* is the only one, and its error is dropped.
InvalidEntry(d, key, v) ==
  IF v.evict THEN deleteEntry(d, key, v.err, v.err) ELSE Returns(d, v.err, ZeroEntry)

\* create that stores the value over an entry that is there and not expired.
create_Overwrite(d, f, key, value, t) ==
  LET v == isEntryValid(d, key, value, t) IN
  IF v.err = EntryAlreadyExists /\ ~v.evict
  THEN Syncs(Put(d, key, value), UndoPut(key, d[key]), Nil, SyncErr)
  ELSE IF v.err # Nil THEN InvalidEntry(d, key, v)
  ELSE IF ~checkAvailableSpace(f, v.size) THEN Returns(d, NotAvailabeSpace, ZeroEntry)
  ELSE Syncs(Put(d, key, value), UndoDelete({key}), Nil, SyncErr)

\* create that leaves the new entry in the map when Sync fails.
create_NoRollback(d, f, key, value, t) ==
  LET v == isEntryValid(d, key, value, t) IN
  IF v.err # Nil THEN InvalidEntry(d, key, v)
  ELSE IF ~checkAvailableSpace(f, v.size) THEN Returns(d, NotAvailabeSpace, ZeroEntry)
  ELSE Syncs(Put(d, key, value), NoUndo, Nil, SyncErr)

create(d, f, key, value, t) ==
  LET v == isEntryValid(d, key, value, t) IN
  IF v.err # Nil THEN InvalidEntry(d, key, v)
  ELSE IF ~checkAvailableSpace(f, v.size) THEN Returns(d, NotAvailabeSpace, ZeroEntry)
  ELSE Syncs(Put(d, key, value), UndoDelete({key}), Nil, SyncErr)

\* batchCreate: the range over the batch stops at the first invalid key it
\* meets; the order is the map's, so `bad` is any of the invalid keys.
BadKeys(d, batchData, t) ==
  {k \in DOMAIN batchData : isEntryValid(d, k, batchData[k], t).err # Nil}

\* batchCreate that refuses a batch of exactly BatchLimit entries.
batchCreate_LimitExclusive(d, f, batchData, t, bad) ==
  IF Cardinality(DOMAIN batchData) >= BatchLimit
  THEN Returns(d, BatchLimitCountExceeds, ZeroEntry)
  ELSE IF BadKeys(d, batchData, t) # {}
  THEN InvalidEntry(d, bad, isEntryValid(d, bad, batchData[bad], t))
  ELSE IF ~checkAvailableSpace(f, MapJsonLen(batchData))
  THEN Returns(d, BatchSizeLimitCrossed, ZeroEntry)
  ELSE Syncs(PutAll(d, batchData), UndoDelete(DOMAIN batchData), Nil, SyncErr)

batchCreate(d, f, batchData, t, bad) ==
  IF Cardinality(DOMAIN batchData) > BatchLimit
  THEN Returns(d, BatchLimitCountExceeds, ZeroEntry)
  ELSE IF BadKeys(d, batchData, t) # {}
  THEN InvalidEntry(d, bad, isEntryValid(d, bad, batchData[bad], t))
  ELSE IF ~checkAvailableSpace(f, MapJsonLen(batchData))
  THEN Returns(d, BatchSizeLimitCrossed, ZeroEntry)
  ELSE Syncs(PutAll(d, batchData), UndoDelete(DOMAIN batchData), Nil, SyncErr)

\* delete that removes an unexpired key from the map and does not call Sync.
delete_NoSync(d, key, t) ==
  IF Has(d, key)
  THEN IF IsExpired(d, key, t)
       THEN deleteEntry(d, key, KeyExpired, KeyExpired)
       ELSE Returns(Remove(d, key), Nil, ZeroEntry)
  ELSE Returns(d, KeyNotFound, ZeroEntry)

\* delete: an expired key is evicted and reported KeyExpired whatever Sync
\* returns; a live key is deleted and the error of Sync is returned.
delete(d, key, t) ==
  IF Has(d, key)
  THEN IF IsExpired(d, key, t)
       THEN deleteEntry(d, key, KeyExpired, KeyExpired)
       ELSE deleteEntry(d, key, Nil, SyncErr)
  ELSE Returns(d, KeyNotFound, ZeroEntry)

\* read that returns no value for a key that is there and not expired.
read_NoValue(d, key, t) ==
  IF Has(d, key)
  THEN IF IsExpired(d, key, t)
       THEN deleteEntry(d, key, KeyExpired, KeyExpired)
       ELSE Returns(d, Nil, ZeroEntry)
  ELSE Returns(d, KeyNotFound, ZeroEntry)

\* read that reports an expired key and leaves it in the map.
read_NoEvict(d, key, t) ==
  IF Has(d, key)
  THEN IF IsExpired(d, key, t)
       THEN Returns(d, KeyExpired, ZeroEntry)
       ELSE Returns(d, Nil, d[key])
  ELSE Returns(d, KeyNotFound, ZeroEntry)

read(d, key, t) ==
  IF Has(d, key)
  THEN IF IsExpired(d, key, t)
       THEN deleteEntry(d, key, KeyExpired, KeyExpired)
       ELSE Returns(d, Nil, d[key])
  ELSE Returns(d, KeyNotFound, ZeroEntry)

\* update: an expired key is deleted from the map without a Sync; the size
\* comes from isEntryValid, which finds the key present and returns 0.
update(d, f, key, updatedVal, t) ==
  IF ~Has(d, key) THEN Returns(d, EntryNotExists, ZeroEntry)
  ELSE IF IsExpired(d, key, t) THEN Returns(Remove(d, key), EntryExpired, ZeroEntry)
  ELSE IF ~checkAvailableSpace(f, isEntryValid(d, key, updatedVal, t).size)
  THEN Returns(d, NotAvailabeSpace, ZeroEntry)
  ELSE Syncs(Put(d, key, updatedVal), UndoPut(key, d[key]), Nil, SyncErr)

\* The switch of writeWorker and of readWorker on op.action.
Execute(op, d, f, t, bad) ==
  CASE op.action = "create" -> create(d, f, op.key, op.value, t)
    [] op.action = "batchCreate" -> batchCreate(d, f, op.batchData, t, bad)
    [] op.action = "delete" -> delete(d, op.key, t)
    [] op.action = "update" -> update(d, f, op.key, op.value, t)
    [] OTHER -> read(d, op.key, t)

\* -------------------------------------------------------------------- state
VARIABLES
  data,        \* db.data
  file,        \* the content of the data file
  now,         \* the clock, in seconds
  closed,      \* db.closed
  chan,        \* the operations buffered in db.writeOps and db.readOps
  chanClosed,  \* which of writeOps, readOps, stopCleanupCh have been closed
  wg,          \* the counter of db.wg
  locks,       \* the keys of db.locks
  held,        \* per key of db.locks, the goroutine holding the mutex
  lockFile,    \* ls.lockFile of the DB is not nil
  flock,       \* the handle holding the advisory lock on <file>.lock
  wpc,         \* per worker: start, idle, sync, done
  wcur,        \* per worker: the operation in progress and where it stands
  spc,         \* the cleanup worker: start, select, range, lock, done
  srange,      \* its range over db.data: the keys yet to produce, the keys produced
  scur,        \* the key it has found expired and is about to lock
  sweeps,      \* the number of ticks of the ticker taken so far
  cpc,         \* per caller: idle, send, wait, close_set .. close_wait
  cop,         \* per caller: the operation of its current or last call
  cres,        \* per caller: the result of its last completed call
  calls,       \* the number of calls made so far
  other,       \* the second handle on the same path: none, loaded, open
  otherData,   \* the map the second handle has loaded
  otherErr,    \* the result of the second handle's last NewDB
  crashed      \* "no", or the panic or fatal error that ended the process

vars == <<data, file, now, closed, chan, chanClosed, wg, locks, held, lockFile,
          flock, wpc, wcur, spc, srange, scur, sweeps, cpc, cop, cres, calls, other,
          otherData, otherErr, crashed>>

Workers == {"writeWorker", "readWorker"}

ChanOf(w) == IF w = "writeWorker" THEN "writeOps" ELSE "readOps"

\* ChanFor that sends a Delete on the queue of the read worker.
ChanFor_DeleteOnReadOps(op) ==
  IF op.action \in {"read", "delete"} THEN "readOps" ELSE "writeOps"

\* The channel an operation is sent on by Create, Read, BatchCreate, Delete, Update.
ChanFor(op) == IF op.action = "read" THEN "readOps" ELSE "writeOps"

Op(action, key, value, batchData, c) ==
  [action |-> action, key |-> key, value |-> value, batchData |-> batchData, response |-> c]

NoOp == Op("none", "", ZeroEntry, EmptyMap, "")

NoCur == [op |-> NoOp, undo |-> NoUndo, ok |-> Nil, fail |-> Nil, pre |-> EmptyMap]

NoRange == [todo |-> {}, seen |-> {}]

\* A response: the error and the value of operationResult; sync records, for
\* the properties, how the Sync of the operation ended ("none": no Sync).
Res(err, value, sync) == [err |-> err, value |-> value, sync |-> sync]

NoRes == Res("none", ZeroEntry, "none")

\* The batches a caller may pass to BatchCreate.
Batches(t) ==
  {[k \in ks |-> NewDbData(1, ttl, t)] : ks \in (SUBSET Keys) \ {{}}, ttl \in {""}}

\* The calls of the public API, with the entry built by the caller at time t.
CallOps(c, t) ==
  {Op("create", k, NewDbData(v, ttl, t), EmptyMap, c) : k \in Keys, v \in Values, ttl \in TtlStrings}
  \cup {Op("update", k, NewDbData(v, "", t), EmptyMap, c) : k \in Keys, v \in Values}
  \cup {Op("read", k, ZeroEntry, EmptyMap, c) : k \in Keys}
  \cup {Op("delete", k, ZeroEntry, EmptyMap, c) : k \in Keys}
  \cup {Op("batchCreate", "", ZeroEntry, b, c) : b \in Batches(t)}

\* NewDB on a path with no file: createFile has written the empty map, the
\* lock is held, the map is empty, the three goroutines have been spawned and
\* none has run yet.
Init ==
  /\ data = EmptyMap
  /\ file = Encode(EmptyMap)
  /\ now = 0
  /\ closed = FALSE
  /\ chan = [writeOps |-> <<>>, readOps |-> <<>>]
  /\ chanClosed = [writeOps |-> FALSE, readOps |-> FALSE, stopCleanupCh |-> FALSE]
  /\ wg = 0
  /\ locks = {}
  /\ held = [k \in LockKeys |-> "none"]
  /\ lockFile = TRUE
  /\ flock = "db"
  /\ wpc = [w \in Workers |-> "start"]
  /\ wcur = [w \in Workers |-> NoCur]
  /\ spc = "start"
  /\ srange = NoRange
  /\ scur = ""
  /\ sweeps = 0
  /\ cpc = [c \in Callers |-> "idle"]
  /\ cop = [c \in Callers |-> NoOp]
  /\ cres = [c \in Callers |-> NoRes]
  /\ calls = 0
  /\ other = "none"
  /\ otherData = EmptyMap
  /\ otherErr = "none"
  /\ crashed = "no"

Running == crashed = "no"

\* ------------------------------------------------------------------ callers
\* Create, Read, Update, Delete, BatchCreate up to the send: db.closed is read
\* without any lock; a closed DB is reported at once.
\* Call without the test of db.closed: every call is sent to its queue.
Call_NoClosedCheck(c, ops, max) ==
  /\ Running /\ cpc[c] = "idle" /\ calls < max
  /\ \E op \in ops :
       /\ cop' = [cop EXCEPT ![c] = op]
       /\ cres' = [cres EXCEPT ![c] = NoRes]
       /\ cpc' = [cpc EXCEPT ![c] = "send"]
  /\ calls' = calls + 1
  /\ UNCHANGED <<data, file, now, closed, chan, chanClosed, wg, locks, held, lockFile,
                 flock, wpc, wcur, spc, srange, scur, sweeps, other, otherData, otherErr, crashed>>

Call(c, ops, max) ==
  /\ Running /\ cpc[c] = "idle" /\ calls < max
  /\ \E op \in ops :
       /\ cop' = [cop EXCEPT ![c] = op]
       /\ IF closed
          THEN /\ cres' = [cres EXCEPT ![c] = Res(DBAlreadyClosed, ZeroEntry, "none")]
               /\ cpc' = cpc
          ELSE /\ cres' = [cres EXCEPT ![c] = NoRes]
               /\ cpc' = [cpc EXCEPT ![c] = "send"]
  /\ calls' = calls + 1
  /\ UNCHANGED <<data, file, now, closed, chan, chanClosed, wg, locks, held, lockFile,
                 flock, wpc, wcur, spc, srange, scur, sweeps, other, otherData, otherErr, crashed>>

\* Send that puts the operation at the front of the queue.
Send_AtFront(c) ==
  /\ Running /\ cpc[c] = "send"
  /\ LET ch == ChanFor(cop[c]) IN
     IF chanClosed[ch]
     THEN /\ crashed' = "send on closed channel"
          /\ UNCHANGED <<chan, cpc>>
     ELSE /\ Len(chan[ch]) < QueueCap
          /\ chan' = [chan EXCEPT ![ch] = <<cop[c]>> \o @]
          /\ cpc' = [cpc EXCEPT ![c] = "wait"]
          /\ crashed' = crashed
  /\ UNCHANGED <<data, file, now, closed, chanClosed, wg, locks, held, lockFile,
                 flock, wpc, wcur, spc, srange, scur, sweeps, cop, cres, calls, other,
                 otherData, otherErr>>

\* db.writeOps <- op (db.readOps <- op): blocks while the buffer is full,
\* panics on a closed channel.
Send(c) ==
  /\ Running /\ cpc[c] = "send"
  /\ LET ch == ChanFor(cop[c]) IN
     IF chanClosed[ch]
     THEN /\ crashed' = "send on closed channel"
          /\ UNCHANGED <<chan, cpc>>
     ELSE /\ Len(chan[ch]) < QueueCap
          /\ chan' = [chan EXCEPT ![ch] = Append(@, cop[c])]
          /\ cpc' = [cpc EXCEPT ![c] = "wait"]
          /\ crashed' = crashed
  /\ UNCHANGED <<data, file, now, closed, chanClosed, wg, locks, held, lockFile,
                 flock, wpc, wcur, spc, srange, scur, sweeps, cop, cres, calls, other,
                 otherData, otherErr>>

\* Close up to the write of db.closed: the flag is read without any lock.
CloseCheck(c, max) ==
  /\ Running /\ cpc[c] = "idle" /\ calls < max
  /\ cop' = [cop EXCEPT ![c] = Op("close", "", ZeroEntry, EmptyMap, c)]
  /\ IF closed
     THEN /\ cres' = [cres EXCEPT ![c] = Res(DBAlreadyClosed, ZeroEntry, "none")]
          /\ cpc' = cpc
     ELSE /\ cres' = [cres EXCEPT ![c] = NoRes]
          /\ cpc' = [cpc EXCEPT ![c] = "close_set"]
  /\ calls' = calls + 1
  /\ UNCHANGED <<data, file, now, closed, chan, chanClosed, wg, locks, held, lockFile,
                 flock, wpc, wcur, spc, srange, scur, sweeps, other, otherData, otherErr, crashed>>

\* db.closed = true; close(db.stopCleanupCh): closing a closed channel panics.
CloseSet(c) ==
  /\ Running /\ cpc[c] = "close_set"
  /\ closed' = TRUE
  /\ IF chanClosed.stopCleanupCh
     THEN /\ crashed' = "close of closed channel"
          /\ UNCHANGED <<chanClosed, cpc>>
     ELSE /\ chanClosed' = [chanClosed EXCEPT !.stopCleanupCh = TRUE]
          /\ cpc' = [cpc EXCEPT ![c] = "close_writeOps"]
          /\ crashed' = crashed
  /\ UNCHANGED <<data, file, now, chan, wg, locks, held, lockFile, flock, wpc, wcur,
                 spc, srange, scur, sweeps, cop, cres, calls, other, otherData, otherErr>>

\* close(db.writeOps), then close(db.readOps).
CloseChan(c) ==
  /\ Running /\ cpc[c] \in {"close_writeOps", "close_readOps"}
  /\ LET ch == IF cpc[c] = "close_writeOps" THEN "writeOps" ELSE "readOps" IN
     IF chanClosed[ch]
     THEN /\ crashed' = "close of closed channel"
          /\ UNCHANGED <<chanClosed, cpc>>
     ELSE /\ chanClosed' = [chanClosed EXCEPT ![ch] = TRUE]
          /\ cpc' = [cpc EXCEPT ![c] = IF ch = "writeOps" THEN "close_readOps" ELSE "close_wait"]
          /\ crashed' = crashed
  /\ UNCHANGED <<data, file, now, closed, chan, wg, locks, held, lockFile, flock, wpc,
                 wcur, spc, srange, scur, sweeps, cop, cres, calls, other, otherData, otherErr>>

\* LocalStorage.releaseLock: nothing to do when ls.lockFile is nil.
releaseLock(lf, fl) ==
  IF ~lf THEN [lockFile |-> FALSE, flock |-> fl, err |-> Nil]
  ELSE [lockFile |-> FALSE, flock |-> "none", err |-> Nil]

\* db.wg.Wait() returns when the counter is zero; then releaseLock and return.
CloseWait(c) ==
  /\ Running /\ cpc[c] = "close_wait"
  /\ wg = 0
  /\ lockFile' = releaseLock(lockFile, flock).lockFile
  /\ flock' = releaseLock(lockFile, flock).flock
  /\ cres' = [cres EXCEPT ![c] = Res(releaseLock(lockFile, flock).err, ZeroEntry, "none")]
  /\ cpc' = [cpc EXCEPT ![c] = "idle"]
  /\ UNCHANGED <<data, file, now, closed, chan, chanClosed, wg, locks, held, wpc, wcur,
                 spc, srange, scur, sweeps, cop, calls, other, otherData, otherErr, crashed>>

\* ------------------------------------------------------------------ workers
\* db.wg.Add(1), the first statement of writeWorker and of readWorker.
WorkerStart(w) ==
  /\ Running /\ wpc[w] = "start"
  /\ wg' = wg + 1
  /\ wpc' = [wpc EXCEPT ![w] = "idle"]
  /\ UNCHANGED <<data, file, now, closed, chan, chanClosed, locks, held, lockFile, flock,
                 wcur, spc, srange, scur, sweeps, cpc, cop, cres, calls, other, otherData,
                 otherErr, crashed>>

\* The keys among which the range of batchCreate may meet its first invalid one.
BadChoices(op, d, t) ==
  IF op.action = "batchCreate" /\ BadKeys(d, op.batchData, t) # {}
  THEN BadKeys(d, op.batchData, t) ELSE {""}

\* One iteration of the worker's loop up to the call of Sync: receive, getLock
\* (which creates the key's mutex), Lock, the switch on op.action; when the
\* operation returns without a Sync, also Unlock and the response.
WorkerBegin(w) ==
  /\ Running /\ wpc[w] = "idle"
  /\ chan[ChanOf(w)] # <<>>
  /\ LET op == Head(chan[ChanOf(w)]) IN
     /\ held[op.key] = "none"
     /\ chan' = [chan EXCEPT ![ChanOf(w)] = Tail(@)]
     /\ locks' = locks \cup {op.key}
     /\ \E bad \in BadChoices(op, data, now) :
          LET r == Execute(op, data, file, now, bad) IN
          /\ data' = r.data
          /\ IF r.sync
             THEN /\ held' = [held EXCEPT ![op.key] = w]
                  /\ wpc' = [wpc EXCEPT ![w] = "sync"]
                  /\ wcur' = [wcur EXCEPT ![w] = [op |-> op, undo |-> r.undo, ok |-> r.ok,
                                                  fail |-> r.fail, pre |-> data]]
                  /\ UNCHANGED <<cres, cpc>>
             ELSE /\ cres' = [cres EXCEPT ![op.response] = Res(r.ok, r.value, "none")]
                  /\ cpc' = [cpc EXCEPT ![op.response] = "idle"]
                  /\ UNCHANGED <<held, wpc, wcur>>
  /\ UNCHANGED <<file, now, closed, chanClosed, wg, lockFile, flock, spc, srange, scur, sweeps,
                 cop, calls, other, otherData, otherErr, crashed>>

\* The return of Sync: the rollback if it failed, Unlock, the response.
WorkerEnd(w, outcomes) ==
  /\ Running /\ wpc[w] = "sync"
  /\ \E outcome \in outcomes :
       LET s == Sync(file, data, outcome) IN
       /\ file' = s.file
       /\ data' = IF s.err = Nil THEN data ELSE ApplyUndo(data, wcur[w].undo)
       /\ cres' = [cres EXCEPT ![wcur[w].op.response] =
                     Res(IF s.err = Nil THEN wcur[w].ok ELSE wcur[w].fail, ZeroEntry, outcome)]
  /\ cpc' = [cpc EXCEPT ![wcur[w].op.response] = "idle"]
  /\ held' = [held EXCEPT ![wcur[w].op.key] = "none"]
  /\ wpc' = [wpc EXCEPT ![w] = "idle"]
  /\ wcur' = [wcur EXCEPT ![w] = NoCur]
  /\ UNCHANGED <<now, closed, chan, chanClosed, wg, locks, lockFile, flock, spc, srange,
                 scur, sweeps, cop, calls, other, otherData, otherErr, crashed>>

\* The range over the channel ends when it is closed and drained: wg.Done().
WorkerExit(w) ==
  /\ Running /\ wpc[w] = "idle"
  /\ chan[ChanOf(w)] = <<>> /\ chanClosed[ChanOf(w)]
  /\ wg' = wg - 1
  /\ wpc' = [wpc EXCEPT ![w] = "done"]
  /\ UNCHANGED <<data, file, now, closed, chan, chanClosed, locks, held, lockFile, flock,
                 wcur, spc, srange, scur, sweeps, cpc, cop, cres, calls, other, otherData,
                 otherErr, crashed>>

\* ----------------------------------------------------------- cleanup worker
\* db.wg.Add(1), the first statement of startCleanupWorker.
CleanupStart ==
  /\ Running /\ spc = "start"
  /\ wg' = wg + 1
  /\ spc' = "select"
  /\ UNCHANGED <<data, file, now, closed, chan, chanClosed, locks, held, lockFile, flock,
                 wpc, wcur, srange, scur, sweeps, cpc, cop, cres, calls, other, otherData,
                 otherErr, crashed>>

\* The select takes the ticker: cleanupExpiredKeys starts its range over db.data.
CleanupTick ==
  /\ Running /\ spc = "select"
  /\ sweeps < MaxSweeps
  /\ sweeps' = sweeps + 1
  /\ spc' = "range"
  /\ srange' = [todo |-> DOMAIN data, seen |-> {}]
  /\ UNCHANGED <<data, file, now, closed, chan, chanClosed, wg, locks, held, lockFile,
                 flock, wpc, wcur, scur, cpc, cop, cres, calls, other, otherData,
                 otherErr, crashed>>

\* The select takes the closed stopCleanupCh: return, wg.Done().
CleanupStop ==
  /\ Running /\ spc = "select"
  /\ chanClosed.stopCleanupCh
  /\ wg' = wg - 1
  /\ spc' = "done"
  /\ UNCHANGED <<data, file, now, closed, chan, chanClosed, locks, held, lockFile, flock,
                 wpc, wcur, srange, scur, sweeps, cpc, cop, cres, calls, other, otherData,
                 otherErr, crashed>>

\* The range produces a key (one present at the start and not deleted since,
\* or one created since) and IsExpired is evaluated on it, with no lock held.
CleanupRange ==
  /\ Running /\ spc = "range"
  /\ \E key \in DOMAIN data \ srange.seen :
       /\ srange' = [todo |-> srange.todo \ {key}, seen |-> srange.seen \cup {key}]
       /\ IF IsExpired(data, key, now)
          THEN spc' = "lock" /\ scur' = key
          ELSE spc' = spc /\ scur' = scur
  /\ UNCHANGED <<data, file, now, sweeps, closed, chan, chanClosed, wg, locks, held, lockFile,
                 flock, wpc, wcur, cpc, cop, cres, calls, other, otherData, otherErr,
                 crashed>>

\* CleanupDelete that takes the mutex of the key and leaves the entry in the map.
CleanupDelete_KeepsEntry ==
  /\ Running /\ spc = "lock"
  /\ held[scur] = "none"
  /\ locks' = locks \cup {scur}
  /\ held' = [held EXCEPT ![scur] = "cleanup"]
  /\ srange' = [srange EXCEPT !.seen = @ \ {scur}]
  /\ spc' = "range"
  /\ scur' = ""
  /\ UNCHANGED <<data, file, now, closed, chan, chanClosed, wg, lockFile, flock, wpc, wcur,
                 sweeps, cpc, cop, cres, calls, other, otherData, otherErr, crashed>>

\* getLock(key), Lock (the Unlock is deferred to the return of
\* cleanupExpiredKeys), delete(db.data, key).  An entry created under the
\* deleted key later in the range is a new entry, which the range may produce.
CleanupDelete ==
  /\ Running /\ spc = "lock"
  /\ held[scur] = "none"
  /\ locks' = locks \cup {scur}
  /\ held' = [held EXCEPT ![scur] = "cleanup"]
  /\ data' = Remove(data, scur)
  /\ srange' = [srange EXCEPT !.seen = @ \ {scur}]
  /\ spc' = "range"
  /\ scur' = ""
  /\ UNCHANGED <<file, now, closed, chan, chanClosed, wg, lockFile, flock, wpc, wcur,
                 sweeps, cpc, cop, cres, calls, other, otherData, otherErr, crashed>>

\* The range is over: Sync, whose error is dropped, and the deferred Unlocks.
CleanupSync ==
  /\ Running /\ spc = "range"
  /\ srange.todo \cap DOMAIN data = {}
  /\ \E outcome \in SyncOutcomes : file' = Sync(file, data, outcome).file
  /\ held' = [k \in DOMAIN held |-> IF held[k] = "cleanup" THEN "none" ELSE held[k]]
  /\ spc' = "select"
  /\ srange' = NoRange
  /\ UNCHANGED <<data, now, closed, chan, chanClosed, wg, locks, lockFile, flock, wpc,
                 wcur, scur, sweeps, cpc, cop, cres, calls, other, otherData, otherErr, crashed>>

\* -------------------------------------------------------------------- clock
Tick ==
  /\ Running /\ now < MaxTime
  /\ now' = now + 1
  /\ UNCHANGED <<data, file, closed, chan, chanClosed, wg, locks, held, lockFile, flock,
                 wpc, wcur, spc, srange, scur, sweeps, cpc, cop, cres, calls, other, otherData,
                 otherErr, crashed>>

\* ------------------------------------------------------------ second handle
\* The advisory lock as the kernel sees it: a process that has ended holds none.
Flock == IF flock = "db" /\ ~Running THEN "none" ELSE flock

\* acquireLock: flock(LOCK_EX|LOCK_NB) fails at once when the lock is held.
\* acquireLock that takes the lock whoever holds it.
acquireLock_NotExclusive(holder, h) == [flock |-> h, err |-> Nil]

acquireLock(holder, h) ==
  IF holder # "none" THEN [flock |-> holder, err |-> LockedByAnotherProcess]
  ELSE [flock |-> h, err |-> Nil]

\* NewLocalStorage of a second NewDB on the same path, up to acquireLock: the
\* file exists, so it is loaded (the error of Load is dropped).
OtherLoad ==
  /\ other = "none"
  /\ other' = "loaded"
  /\ otherData' = Load(EmptyMap, file).data
  /\ otherErr' = "none"
  /\ UNCHANGED <<data, file, now, closed, chan, chanClosed, wg, locks, held, lockFile,
                 flock, wpc, wcur, spc, srange, scur, sweeps, cpc, cop, cres, calls, crashed>>

\* acquireLock of the second NewDB: on an error no handle is returned.
OtherAcquire ==
  /\ other = "loaded"
  /\ LET a == acquireLock(Flock, "other") IN
     /\ flock' = a.flock
     /\ otherErr' = a.err
     /\ other' = IF a.err = Nil THEN "open" ELSE "none"
     /\ otherData' = IF a.err = Nil THEN otherData ELSE EmptyMap
  /\ UNCHANGED <<data, file, now, closed, chan, chanClosed, wg, locks, held, lockFile,
                 wpc, wcur, spc, srange, scur, sweeps, cpc, cop, cres, calls, crashed>>

\* Close of the second handle: releaseLock.
OtherClose ==
  /\ other = "open"
  /\ other' = "none"
  /\ otherData' = EmptyMap
  /\ flock' = releaseLock(TRUE, flock).flock
  /\ UNCHANGED <<data, file, now, closed, chan, chanClosed, wg, locks, held, lockFile,
                 wpc, wcur, spc, srange, scur, sweeps, cpc, cop, cres, calls, otherErr, crashed>>

\* ------------------------------------------------------------- data races
\* db.data is a Go map that the two workers and the cleanup worker access
\* with no common lock.  The access a goroutine is about to make: "w" when its
\* next step may write the map, "r" when it only reads it, "none" otherwise.
WorkerAccess(w) ==
  IF wpc[w] = "sync" THEN "w"
  ELSE IF wpc[w] = "idle" /\ chan[ChanOf(w)] # <<>> /\ held[Head(chan[ChanOf(w)]).key] = "none"
  THEN LET op == Head(chan[ChanOf(w)]) IN
       IF \E bad \in BadChoices(op, data, now) : Execute(op, data, file, now, bad).data # data
       THEN "w" ELSE "r"
  ELSE "none"

CleanupAccess ==
  IF spc = "range" THEN "r"
  ELSE IF spc = "lock" /\ held[scur] = "none" THEN "w"
  ELSE "none"

Access(g) == IF g = "cleanup" THEN CleanupAccess ELSE WorkerAccess(g)

\* The mutex under which a goroutine makes its access: a worker that of its
\* operation's key, the cleanup worker that of the key it is about to delete;
\* the range of the cleanup worker reads the map under no mutex.
Locked(g) == g # "cleanup" \/ spc = "lock"

LockKeyOf(g) ==
  IF g = "cleanup" THEN scur
  ELSE IF wpc[g] = "sync" THEN wcur[g].op.key
  ELSE Head(chan[ChanOf(g)]).key

\* Two goroutines about to access the map, one of them writing, that are not
\* kept apart by the mutex of one key.
Racing ==
  \E g1, g2 \in Workers \cup {"cleanup"} :
    /\ g1 # g2 /\ Access(g1) = "w" /\ Access(g2) # "none"
    /\ ~(Locked(g1) /\ Locked(g2) /\ LockKeyOf(g1) = LockKeyOf(g2))

\* The runtime detects the concurrent access and ends the process (it may as
\* well not detect it: then the accesses take effect one after the other).
MapRace ==
  /\ Running /\ Racing
  /\ crashed' = "concurrent map access"
  /\ UNCHANGED <<data, file, now, closed, chan, chanClosed, wg, locks, held, lockFile,
                 flock, wpc, wcur, spc, srange, scur, sweeps, cpc, cop, cres, calls, other,
                 otherData, otherErr>>

\* The store in use by one client making one call after another, the three
\* goroutines having registered with the wait group.
InitRunning(d) ==
  /\ data = d
  /\ file = Encode(d)
  /\ now = 0
  /\ closed = FALSE
  /\ chan = [writeOps |-> <<>>, readOps |-> <<>>]
  /\ chanClosed = [writeOps |-> FALSE, readOps |-> FALSE, stopCleanupCh |-> FALSE]
  /\ wg = 3
  /\ locks = {}
  /\ held = [k \in LockKeys |-> "none"]
  /\ lockFile = TRUE
  /\ flock = "db"
  /\ wpc = [w \in Workers |-> "idle"]
  /\ wcur = [w \in Workers |-> NoCur]
  /\ spc = "select"
  /\ srange = NoRange
  /\ scur = ""
  /\ sweeps = 0
  /\ cpc = [c \in Callers |-> "idle"]
  /\ cop = [c \in Callers |-> NoOp]
  /\ cres = [c \in Callers |-> NoRes]
  /\ calls = 0
  /\ other = "none"
  /\ otherData = EmptyMap
  /\ otherErr = "none"
  /\ crashed = "no"

InitSeq == InitRunning(EmptyMap)

Next ==
  \/ Call("c1", CallOps("c1", now), MaxCalls)
  \/ Send("c1")
  \/ \E w \in Workers : WorkerBegin(w)
  \/ \E w \in Workers : WorkerEnd(w, SyncOutcomes)
  \/ CleanupTick
  \/ CleanupRange
  \/ CleanupDelete
  \/ CleanupSync
  \/ MapRace
  \/ Tick

Spec == InitSeq /\ [][Next]_vars

\* ---------------------------------------------------------------- lifecycle
\* The store from the return of NewDB: two clients that create and read one
\* key and close the store, while a second NewDB is tried on the same path.
LifeOps(c) ==
  {Op("create", "a", NewDbData(IF c = "c1" THEN 1 ELSE 2, "", now), EmptyMap, c),
   Op("read", "a", ZeroEntry, EmptyMap, c)}

LifeCallers == {"c1", "c2", "c3"}

NextLife ==
  \/ \E c \in LifeCallers : Call(c, LifeOps(c), MaxLifeCalls)
  \/ \E c \in Callers : Send(c)
  \/ \E c \in LifeCallers : CloseCheck(c, MaxLifeCalls)
  \/ \E c \in Callers : CloseSet(c)
  \/ \E c \in Callers : CloseChan(c)
  \/ \E c \in Callers : CloseWait(c)
  \/ \E w \in Workers : WorkerStart(w)
  \/ \E w \in Workers : WorkerBegin(w)
  \/ \E w \in Workers : WorkerEnd(w, SyncOutcomes)
  \/ \E w \in Workers : WorkerExit(w)
  \/ CleanupStart
  \/ CleanupTick
  \/ CleanupStop
  \/ CleanupRange
  \/ CleanupSync
  \/ MapRace
  \/ OtherLoad
  \/ OtherAcquire
  \/ OtherClose

SpecLife == Init /\ [][NextLife]_vars

\* ------------------------------------------------------- concurrent creates
\* Every client calls Create once on the same key, absent at the start, each
\* with its own value; the workers and the cleanup worker run as they like.
ValueOf(c) == CASE c = "c1" -> 1 [] c = "c2" -> 2 [] OTHER -> 3

CreateOps(c) == {Op("create", "a", NewDbData(ValueOf(c), "", now), EmptyMap, c)}

NextCreate ==
  \/ \E c \in Callers : cop[c] = NoOp /\ Call(c, CreateOps(c), Cardinality(Callers))
  \/ \E c \in Callers : Send(c)
  \/ WorkerBegin("writeWorker")
  \/ WorkerEnd("writeWorker", SyncOutcomes)
  \/ CleanupTick
  \/ CleanupRange
  \/ CleanupSync
  \/ MapRace

SpecCreate == InitSeq /\ [][NextCreate]_vars

\* Close and reopen: one caller issues Creates, Updates and Deletes whose Syncs
\* succeed, then Close; NewDB on the same path runs after Close has returned.
ReopenOps(t) ==
  {Op("create", k, NewDbData(1, "", t), EmptyMap, "c1") : k \in Keys}
  \cup {Op("update", "a", NewDbData(2, "", t), EmptyMap, "c1"),
        Op("delete", "a", ZeroEntry, EmptyMap, "c1")}

Reopen == ~lockFile /\ OtherLoad

NextReopen ==
  \/ Call("c1", ReopenOps(now), MaxReopenCalls)
  \/ Send("c1")
  \/ CloseCheck("c1", MaxReopenCalls + 1)
  \/ CloseSet("c1")
  \/ CloseChan("c1")
  \/ CloseWait("c1")
  \/ WorkerBegin("writeWorker")
  \/ WorkerEnd("writeWorker", {"ok"})
  \/ \E w \in Workers : WorkerExit(w)
  \/ CleanupStop
  \/ Tick
  \/ Reopen
  \/ OtherAcquire

SpecReopen == InitSeq /\ [][NextReopen]_vars

\* Sizes: one client whose calls carry, besides small values, a value whose
\* JSON is longer than the limit on an entry.
BigValue == EntrySizeLimitMB * KB * KB

QuotaOps(t) ==
  {Op("create", "a", NewDbData(1, "", t), EmptyMap, "c1"),
   Op("create", "a", NewDbData(BigValue, "", t), EmptyMap, "c1"),
   Op("create", "b", NewDbData(BigValue, "", t), EmptyMap, "c1"),
   Op("create", Key33, NewDbData(BigValue, "", t), EmptyMap, "c1"),
   Op("update", "a", NewDbData(2, "", t), EmptyMap, "c1"),
   Op("update", "a", NewDbData(BigValue, "", t), EmptyMap, "c1"),
   Op("read", "a", ZeroEntry, EmptyMap, "c1")}

NextQuota ==
  \/ Call("c1", QuotaOps(now), MaxCalls)
  \/ Send("c1")
  \/ \E w \in Workers : WorkerBegin(w)
  \/ \E w \in Workers : WorkerEnd(w, SyncOutcomes)
  \/ Tick

SpecQuota == InitSeq /\ [][NextQuota]_vars

\* Batches at the limit: one client that creates the key "a" and calls
\* BatchCreate with BatchLimit fresh keys, with BatchLimit keys of which one is
\* "a", and with BatchLimit + 1 keys of which one is "a".
Digit(n) ==
  CASE n = 0 -> "0" [] n = 1 -> "1" [] n = 2 -> "2" [] n = 3 -> "3" [] n = 4 -> "4"
    [] n = 5 -> "5" [] n = 6 -> "6" [] n = 7 -> "7" [] n = 8 -> "8" [] OTHER -> "9"

KeyN(n) == "k" \o Digit(n \div 100) \o Digit((n \div 10) % 10) \o Digit(n % 10)

FreshKeys(n) == {KeyN(i) : i \in 1..n}

BatchOf(ks, t) == [k \in ks |-> NewDbData(1, "", t)]

KeysAtLimit == FreshKeys(BatchLimit)

KeysAtLimitWithA == FreshKeys(BatchLimit - 1) \cup {"a"}

KeysOverLimit == FreshKeys(BatchLimit) \cup {"a"}

BatchOps(t) ==
  {Op("create", "a", NewDbData(2, "", t), EmptyMap, "c1"),
   Op("batchCreate", "", ZeroEntry, BatchOf(KeysAtLimit, t), "c1"),
   Op("batchCreate", "", ZeroEntry, BatchOf(KeysAtLimitWithA, t), "c1"),
   Op("batchCreate", "", ZeroEntry, BatchOf(KeysOverLimit, t), "c1")}

NextBatch ==
  \/ Call("c1", BatchOps(now), MaxCalls)
  \/ Send("c1")
  \/ WorkerBegin("writeWorker")
  \/ WorkerEnd("writeWorker", SyncOutcomes)
  \/ Tick

SpecBatch == InitSeq /\ [][NextBatch]_vars

\* A store near its storage limit: NewDB has loaded a file that BulkCount
\* Creates of entries just under the entry limit have filled up to Headroom
\* bytes below StorageLimitMB; one client then creates and updates the key "a"
\* with entries smaller than, equal to and larger than what is left.
BulkCount == 64

Headroom == 126

StorageLimitBytes == StorageLimitMB * KB * KB

\* The value length that makes the file of BulkCount such entries
\* StorageLimitBytes - Headroom bytes long.
BulkValue == (StorageLimitBytes - Headroom - 2) \div BulkCount - 75

BulkMap == [k \in FreshKeys(BulkCount) |-> NewDbData(BulkValue, "", 0)]

\* The value length of an entry whose JSON is n bytes long.
ValueOfJsonLen(n) == n - 67

FullOps(t) ==
  {Op("create", "a", NewDbData(v, "", t), EmptyMap, "c1") :
      v \in {1, ValueOfJsonLen(Headroom), ValueOfJsonLen(Headroom + 1)}}
  \cup {Op("update", "a", NewDbData(2 * Headroom, "", t), EmptyMap, "c1")}

InitFull == InitRunning(BulkMap)

NextFull ==
  \/ Call("c1", FullOps(now), MaxCalls)
  \/ Send("c1")
  \/ WorkerBegin("writeWorker")
  \/ WorkerEnd("writeWorker", SyncOutcomes)
  \/ Tick

SpecFull == InitFull /\ [][NextFull]_vars

\* Keys at the length limit: one client that calls Create, BatchCreate, Update
\* and Read with a short key and with keys of 32 and of 33 characters.
KeyOps(t) ==
  {Op("create", k, NewDbData(1, "", t), EmptyMap, "c1") : k \in LongKeys \cup {"a"}}
  \cup {Op("batchCreate", "", ZeroEntry, BatchOf({k, "b"}, t), "c1") : k \in LongKeys}
  \cup {Op("update", k, NewDbData(2, "", t), EmptyMap, "c1") : k \in {Key32, Key33}}
  \cup {Op("read", k, ZeroEntry, EmptyMap, "c1") : k \in {Key32, Key33}}

NextKeys ==
  \/ Call("c1", KeyOps(now), MaxCalls)
  \/ Send("c1")
  \/ \E w \in Workers : WorkerBegin(w)
  \/ \E w \in Workers : WorkerEnd(w, SyncOutcomes)
  \/ Tick

SpecKeys == InitSeq /\ [][NextKeys]_vars

\* Concurrent writers: three clients call at the same time, the first Create
\* and BatchCreate, the second Update and Delete, the third Create, all on
\* the key "a", and the third also Read, on the key "b".
WriteOpsOf(c, t) ==
  CASE c = "c1" -> {Op("create", "a", NewDbData(1, "", t), EmptyMap, c),
                    Op("batchCreate", "", ZeroEntry, BatchOf({"a", "b"}, t), c)}
    [] c = "c2" -> {Op("update", "a", NewDbData(2, "", t), EmptyMap, c),
                    Op("delete", "a", ZeroEntry, EmptyMap, c)}
    [] OTHER -> {Op("create", "a", NewDbData(2, "", t), EmptyMap, c),
                 Op("read", "b", ZeroEntry, EmptyMap, c)}

NextWrites ==
  \/ \E c \in Callers : Call(c, WriteOpsOf(c, now), MaxWriteCalls)
  \/ \E c \in Callers : Send(c)
  \/ \E w \in Workers : WorkerBegin(w)
  \/ \E w \in Workers : WorkerEnd(w, SyncOutcomes)
  \/ MapRace

SpecWrites == InitSeq /\ [][NextWrites]_vars

\* The lifecycle under fair scheduling: a goroutine of the store that can
\* take a step eventually takes one.  Nothing is assumed of the clients, of
\* the ticker, or of the runtime's detection of a data race.
FairLife ==
  /\ \A w \in Workers : WF_vars(WorkerStart(w))
  /\ \A w \in Workers : WF_vars(WorkerBegin(w))
  /\ \A w \in Workers : WF_vars(WorkerEnd(w, SyncOutcomes))
  /\ \A w \in Workers : WF_vars(WorkerExit(w))
  /\ WF_vars(CleanupStart)
  /\ WF_vars(CleanupRange)
  /\ WF_vars(CleanupSync)
  /\ WF_vars(CleanupStop)

SpecLifeFair == Init /\ [][NextLife]_vars /\ FairLife

\* Concurrent Creates and Reads: the store holds the key "a"; two clients
\* each create a fresh key of their own, once, while a third reads the key
\* "a", all at the same time; every Sync succeeds.
MaxMixCalls == 4

StoredMap == [k \in {"a"} |-> NewDbData(1, "", 0)]

MixCreators == {"c1", "c2"}

MixKeyOf(c) == IF c = "c1" THEN "b" ELSE Key32

MixOps(c, t) ==
  IF c \in MixCreators
  THEN {Op("create", MixKeyOf(c), NewDbData(2, "", t), EmptyMap, c)}
  ELSE {Op("read", "a", ZeroEntry, EmptyMap, c)}

InitMix == InitRunning(StoredMap)

NextMix ==
  \/ \E c \in Callers : (c \in MixCreators => cop[c] = NoOp) /\ Call(c, MixOps(c, now), MaxMixCalls)
  \/ \E c \in Callers : Send(c)
  \/ \E w \in Workers : WorkerBegin(w)
  \/ WorkerEnd("writeWorker", {"ok"})
  \/ MapRace

SpecMix == InitMix /\ [][NextMix]_vars

\* The cleanup worker alone: the store holds an entry that expires after the
\* first second, one that expires after the second, and one that never does;
\* no client calls, the ticker fires and the clock advances as it likes.
SweepMap ==
  [k \in {"a", "b", Key32} |->
     NewDbData(1, CASE k = "a" -> "0" [] k = "b" -> "" [] OTHER -> "1", 0)]

InitSweep == \E ks \in SUBSET DOMAIN SweepMap : InitRunning([k \in ks |-> SweepMap[k]])

NextSweep ==
  \/ CleanupTick
  \/ CleanupRange
  \/ CleanupDelete
  \/ CleanupSync
  \/ Tick

SpecSweep == InitSweep /\ [][NextSweep]_vars

\* Two NewDB on one path that holds no file yet: the first has returned (it
\* has created the file and holds the lock, its goroutines are running); the
\* second has either not started or has so far run fileExists, which found no
\* file because it ran before the first created it.
InitOpening ==
  /\ data = EmptyMap
  /\ file = Encode(EmptyMap)
  /\ now = 0
  /\ closed = FALSE
  /\ chan = [writeOps |-> <<>>, readOps |-> <<>>]
  /\ chanClosed = [writeOps |-> FALSE, readOps |-> FALSE, stopCleanupCh |-> FALSE]
  /\ wg = 3
  /\ locks = {}
  /\ held = [k \in LockKeys |-> "none"]
  /\ lockFile = TRUE
  /\ flock = "db"
  /\ wpc = [w \in Workers |-> "idle"]
  /\ wcur = [w \in Workers |-> NoCur]
  /\ spc = "select"
  /\ srange = NoRange
  /\ scur = ""
  /\ sweeps = 0
  /\ cpc = [c \in Callers |-> "idle"]
  /\ cop = [c \in Callers |-> NoOp]
  /\ cres = [c \in Callers |-> NoRes]
  /\ calls = 0
  /\ other \in {"none", "absent"}
  /\ otherData = EmptyMap
  /\ otherErr = "none"
  /\ crashed = "no"

\* NewLocalStorage of the second NewDB when fileExists found no file:
\* createFile, whose os.Create truncates the file and whose Sync writes the
\* empty map; the error of createFile is dropped.
OtherCreateFile ==
  /\ other = "absent"
  /\ other' = "loaded"
  /\ \E outcome \in SyncOutcomes : file' = Sync(file, EmptyMap, outcome).file
  /\ otherData' = EmptyMap
  /\ otherErr' = "none"
  /\ UNCHANGED <<data, now, closed, chan, chanClosed, wg, locks, held, lockFile,
                 flock, wpc, wcur, spc, srange, scur, sweeps, cpc, cop, cres, calls, crashed>>

\* The first store serves Creates whose Syncs succeed while the second NewDB runs.
OpenOps(t) == {Op("create", k, NewDbData(v, "", t), EmptyMap, "c1") : k \in Keys, v \in Values}

NextOpen ==
  \/ Call("c1", OpenOps(now), MaxCalls)
  \/ Send("c1")
  \/ WorkerBegin("writeWorker")
  \/ WorkerEnd("writeWorker", {"ok"})
  \/ OtherCreateFile
  \/ OtherLoad
  \/ OtherAcquire

SpecOpen == InitOpening /\ [][NextOpen]_vars

\* Concurrent readers: the store holds the entries of SweepMap; three clients
\* call Read at the same time, on keys of their own, while the clock advances,
\* so that some Reads find their key expired and evict it.
ReadKeyOf(c) == CASE c = "c1" -> "a" [] c = "c2" -> Key32 [] OTHER -> "b"

ReadOps(c) == {Op("read", ReadKeyOf(c), ZeroEntry, EmptyMap, c)}

InitReads == InitRunning(SweepMap)

NextReads ==
  \/ \E c \in Callers : Call(c, ReadOps(c), MaxMixCalls)
  \/ \E c \in Callers : Send(c)
  \/ WorkerBegin("readWorker")
  \/ WorkerEnd("readWorker", SyncOutcomes)
  \/ Tick

SpecReads == InitReads /\ [][NextReads]_vars

\* The cleanup worker against the write worker and Close: one client calls
\* BatchCreate with an entry that expires after its first second, and Delete;
\* another calls Close; the ticker fires and the clock advances as they like.
\* A goroutine of the store, and a Close under way, that can take a step
\* eventually takes one; nothing is assumed of the clients, of the ticker or
\* of the clock.  Close is called when no call of the client is between its
\* test of db.closed and its send, and the client makes no call after that.
LockOps(t) ==
  {Op("batchCreate", "", ZeroEntry, [k \in {"a"} |-> NewDbData(1, "0", t)], "c1"),
   Op("delete", "a", ZeroEntry, EmptyMap, "c1")}

NextLock ==
  \/ cop["c2"] = NoOp /\ Call("c1", LockOps(now), MaxCalls)
  \/ Send("c1")
  \/ cpc["c1"] # "send" /\ CloseCheck("c2", MaxCalls + 1)
  \/ CloseSet("c2")
  \/ CloseChan("c2")
  \/ CloseWait("c2")
  \/ WorkerBegin("writeWorker")
  \/ WorkerEnd("writeWorker", SyncOutcomes)
  \/ \E w \in Workers : WorkerExit(w)
  \/ CleanupTick
  \/ CleanupRange
  \/ CleanupDelete
  \/ CleanupSync
  \/ CleanupStop
  \/ Tick

FairLock ==
  /\ WF_vars(WorkerBegin("writeWorker"))
  /\ WF_vars(WorkerEnd("writeWorker", SyncOutcomes))
  /\ \A w \in Workers : WF_vars(WorkerExit(w))
  /\ WF_vars(CleanupRange)
  /\ WF_vars(CleanupDelete)
  /\ WF_vars(CleanupSync)
  /\ WF_vars(CleanupStop)
  /\ WF_vars(CloseSet("c2"))
  /\ WF_vars(CloseChan("c2"))
  /\ WF_vars(CloseWait("c2"))

SpecLock == InitSeq /\ [][NextLock]_vars /\ FairLock

\* ---------------------------------------------------------------------------
\* Properties
\* ---------------------------------------------------------------------------

\* The callers whose Create has returned, and those it returned nil to.
Returned == {c \in Callers : cop[c].action = "create" /\ cpc[c] = "idle"
                                /\ cres[c].err # "none"}

Winners == {c \in Returned : cres[c].err = Nil}

Quiescent ==
  /\ Running
  /\ \A w \in Workers : wpc[w] # "sync"
  /\ sweeps = 0 /\ spc = "select"
  /\ ~file.partial

\* C2: whenever no operation is between its in-memory mutation and the return
\* of its persistence call, the file decodes to exactly the in-memory map.
C2_DiskEqualsMemory == Quiescent => Decode(file) = data

\* The write worker finishes, in this step, a Create of a key that was absent,
\* and the Sync of that Create failed.
CreateSyncFails(c) ==
  /\ wpc["writeWorker"] = "sync" /\ wpc'["writeWorker"] = "idle"
  /\ wcur["writeWorker"].op.action = "create"
  /\ wcur["writeWorker"].op.response = c
  /\ ~Has(wcur["writeWorker"].pre, wcur["writeWorker"].op.key)
  /\ cres'[c].sync \in {"createFails", "encodeFails"}

\* C3: when the Sync of a Create of an absent key fails, the caller gets the
\* persistence error, the key is absent from the map afterwards, and every
\* other key holds what it held before the call (the map is what it was
\* before the call when no sweep ran in between).
C3_CreateRollsBack ==
  [][\A c \in Callers : CreateSyncFails(c) =>
        LET cur == wcur["writeWorker"] IN
        /\ cres'[c].err = SyncErr
        /\ ~Has(data', cur.op.key)
        /\ \A k \in DOMAIN data' : Has(cur.pre, k) /\ data'[k] = cur.pre[k]
        /\ sweeps = 0 => data' = cur.pre]_vars

\* C3 witness: a Create whose Sync failed after truncating the file has
\* returned the persistence error, the key is absent and another key, created
\* before, is still there.
C3_Witness ==
  \E c \in Callers :
    /\ cop[c].action = "create" /\ cpc[c] = "idle"
    /\ cres[c].err = SyncErr /\ cres[c].sync = "encodeFails"
    /\ ~Has(data, cop[c].key)
    /\ data # EmptyMap

\* The lifetime, in seconds, that a ttl string of the inputs stands for.
TtlSeconds(s) == CASE s = "1" -> 1 [] OTHER -> 0

\* The read worker takes, in this step, the Read of caller c from its queue.
ReadBegins(c) ==
  /\ wpc["readWorker"] = "idle"
  /\ chan.readOps # <<>> /\ Head(chan.readOps).response = c
  /\ Head(chan.readOps).action = "read"
  /\ chan'.readOps = Tail(chan.readOps)

\* C10: a Read of a key present with ttl N, taken at time t, returns the entry
\* when t <= created_at + N and is bound to answer "key expired" when
\* t > created_at + N; an entry with the empty ttl is returned at every t.
C10_ExpiryOnDiscreteClock ==
  [][\A c \in Callers : (ReadBegins(c) /\ Has(data, Head(chan.readOps).key)) =>
        LET e == data[Head(chan.readOps).key] IN
        IF e.ttl = "" \/ now <= e.created_at + TtlSeconds(e.ttl)
        THEN cres'[c].err = Nil /\ cres'[c].value = e
        ELSE /\ cres'[c].err = "none"
             /\ wpc'["readWorker"] = "sync"
             /\ wcur'["readWorker"].ok = KeyExpired
             /\ wcur'["readWorker"].fail = KeyExpired]_vars

\* C10 witness: at the last instant of its lifetime, created_at + 1, an entry
\* with ttl "1" has been read successfully.
C10_Witness ==
  \E c \in Callers :
    /\ cop[c].action = "read" /\ cpc[c] = "idle"
    /\ cres[c].err = Nil /\ cres[c].value.ttl = "1"
    /\ now = cres[c].value.created_at + 1

C5_SingleOwner ==
  [][/\ (lockFile' /\ crashed' = "no") => other' # "open"
     /\ (other = "loaded" /\ other' # "loaded" /\ lockFile /\ Running)
          => other' = "none" /\ otherErr' = LockedByAnotherProcess
     /\ (other = "loaded" /\ other' # "loaded" /\ ~lockFile)
          => other' = "open" /\ otherErr' = Nil]_vars

\* C5 witness: NewDB on the path failed while the first handle was open, a
\* call of the first handle having completed in the meantime.
C5_Witness ==
  /\ lockFile /\ Running
  /\ other = "none" /\ otherErr = LockedByAnotherProcess
  /\ \E c \in LifeCallers : cop[c].action = "create" /\ cres[c].err = Nil

\* C6: a call made after Close has returned answers "DB already closed" in
\* the same step: no caller goes on to send, no queue changes, and neither the
\* map nor the file changes.
C6_RejectedAfterClose ==
  [][(calls' = calls + 1 /\ ~lockFile) =>
        /\ cpc' = cpc /\ chan' = chan /\ data' = data /\ file' = file
        /\ \E c \in LifeCallers :
             /\ cpc[c] = "idle"
             /\ cres'[c].err = DBAlreadyClosed
             /\ \A d \in LifeCallers \ {c} : cres'[d] = cres[d] /\ cop'[d] = cop[d]]_vars

\* C6 witness: Close has returned and a Create made afterwards was answered
\* "DB already closed".
C6_Witness ==
  /\ ~lockFile
  /\ \E c \in LifeCallers : cop[c].action = "close" /\ cpc[c] = "idle" /\ cres[c].err = Nil
  /\ \E c \in LifeCallers : cop[c].action = "create" /\ cpc[c] = "idle"
                              /\ cres[c].err = DBAlreadyClosed

\* C7: once Close has been called, a call that passed the test of db.closed,
\* whether it is about to send or is waiting for its result, is never cut off
\* by the end of the process.
C7_AdmittedCallsComplete ==
  \A c \in LifeCallers :
    (closed /\ cop[c].action \in {"create", "read"} /\ cpc[c] \in {"send", "wait"})
      => Running

\* C8: when the file lock has been released by Close, the two workers and the
\* cleanup worker have all finished.
C8_LockReleasedAfterWorkers ==
  ~lockFile => (\A w \in Workers : wpc[w] = "done") /\ spc = "done"

\* C9: no channel is closed twice, and at most one Close call gets past the
\* test of db.closed and returns nil.
C9_OneCloseShutsDown ==
  /\ crashed # "close of closed channel"
  /\ Cardinality({c \in LifeCallers : cop[c].action = "close" /\ cpc[c] = "idle"
                                        /\ cres[c].err = Nil}) <= 1

\* The write worker takes, in this step, the operation `action` of caller c
\* from its queue.
WriteBegins(c, action) ==
  /\ wpc["writeWorker"] = "idle"
  /\ chan.writeOps # <<>> /\ Head(chan.writeOps).response = c
  /\ Head(chan.writeOps).action = action
  /\ chan'.writeOps = Tail(chan.writeOps)

\* The write worker returns, in this step, from the Sync of the operation
\* `action` of caller c.
WriteEnds(c, action) ==
  /\ wpc["writeWorker"] = "sync" /\ wpc'["writeWorker"] = "idle"
  /\ wcur["writeWorker"].op.action = action
  /\ wcur["writeWorker"].op.response = c

\* The entry e has not expired at time t.
Live(e, t) == e.ttl = "" \/ t <= e.created_at + TtlSeconds(e.ttl)

\* C11: a Create of a key that is in the map and has not expired answers
\* "entry already exists" and changes neither the map nor the file.
C11_CreateKeepsLiveEntry ==
  [][\A c \in Callers :
        (/\ WriteBegins(c, "create")
         /\ Has(data, Head(chan.writeOps).key)
         /\ Live(data[Head(chan.writeOps).key], now))
        => /\ cres'[c].err = EntryAlreadyExists /\ cpc'[c] = "idle"
           /\ data' = data /\ file' = file]_vars

\* C11 witness: a Create of a stored, unexpired key with another value has
\* been refused, and the map and the file still hold the first entry.
C11_Witness ==
  \E c \in Callers :
    /\ cop[c].action = "create" /\ cpc[c] = "idle"
    /\ cres[c].err = EntryAlreadyExists
    /\ Has(data, cop[c].key) /\ Live(data[cop[c].key], now)
    /\ data[cop[c].key].value # cop[c].value.value
    /\ ~file.partial /\ Decode(file) = data

\* C12: a Create of a key that is in the map and has expired, whose Sync
\* succeeds, returns nil and leaves the key mapped to the new entry.
C12_CreateOverExpired ==
  [][\A c \in Callers :
        (/\ WriteEnds(c, "create")
         /\ Has(wcur["writeWorker"].pre, wcur["writeWorker"].op.key)
         /\ cres'[c].sync = "ok")
        => /\ cres'[c].err = Nil
           /\ Has(data', wcur["writeWorker"].op.key)
           /\ data'[wcur["writeWorker"].op.key] = wcur["writeWorker"].op.value]_vars

\* C13: a Read of a key that is not in the map answers "key not found"; a
\* Read of a key that is in the map and has not expired returns the stored
\* entry; neither changes the map or the file; and the entry stored by a
\* Create that returned nil is the one the call passed.
C13_ReadReturnsStored ==
  [][\A c \in Callers :
        /\ ReadBegins(c) =>
             LET k == Head(chan.readOps).key IN
             IF ~Has(data, k)
             THEN /\ cres'[c].err = KeyNotFound /\ cpc'[c] = "idle"
                  /\ data' = data /\ file' = file
             ELSE Live(data[k], now) =>
                  /\ cres'[c].err = Nil /\ cres'[c].value = data[k] /\ cpc'[c] = "idle"
                  /\ data' = data /\ file' = file
        /\ (WriteEnds(c, "create") /\ cres'[c].err = Nil) =>
             /\ Has(data', wcur["writeWorker"].op.key)
             /\ data'[wcur["writeWorker"].op.key] = wcur["writeWorker"].op.value]_vars

\* C13 witness: a Read has returned the entry stored under its key, one
\* created with the second value, and the file holds the same map.
C13_Witness ==
  \E c \in Callers :
    /\ cop[c].action = "read" /\ cpc[c] = "idle"
    /\ cres[c].err = Nil
    /\ Has(data, cop[c].key) /\ cres[c].value = data[cop[c].key]
    /\ cres[c].value.value = 2
    /\ ~file.partial /\ Decode(file) = data

\* The read worker returns, in this step, from the Sync of the Read of
\* caller c (a Read calls Sync only to evict an expired key).
ReadEnds(c) ==
  /\ wpc["readWorker"] = "sync" /\ wpc'["readWorker"] = "idle"
  /\ wcur["readWorker"].op.action = "read"
  /\ wcur["readWorker"].op.response = c

\* C14 as stated: a Read of an expired key answers "key expired" and, after
\* it, the key is neither in the map nor in the file.
C14_ReadEvictsExpired ==
  [][\A c \in Callers : ReadEnds(c) =>
        LET k == wcur["readWorker"].op.key IN
        /\ cres'[c].err = KeyExpired
        /\ ~Has(data', k)
        /\ ~Has(Decode(file'), k)]_vars

\* C14 amended: a Read of an expired key removes the key from the map and
\* calls Sync; it answers "key expired" whatever Sync returns; when Sync
\* succeeds the key is neither in the map nor in the file afterwards, and when
\* Sync fails the entry is put back in the map.
C14_ReadEvictsExpiredWhenSyncOk ==
  [][\A c \in Callers :
        /\ (ReadBegins(c) /\ Has(data, Head(chan.readOps).key)
                          /\ ~Live(data[Head(chan.readOps).key], now))
             => /\ wpc'["readWorker"] = "sync"
                /\ ~Has(data', Head(chan.readOps).key)
        /\ ReadEnds(c) =>
             LET k == wcur["readWorker"].op.key IN
             /\ cres'[c].err = KeyExpired
             /\ IF cres'[c].sync = "ok"
                THEN /\ ~Has(data', k)
                     /\ ~file'.partial /\ ~Has(Decode(file'), k)
                ELSE /\ Has(data', k)
                     /\ data'[k] = wcur["readWorker"].pre[k]]_vars

\* C14 witness: a Read of an expired key has answered "key expired", its Sync
\* succeeded, and the key is neither in the map nor in the file.
C14_Witness ==
  \E c \in Callers :
    /\ cop[c].action = "read" /\ cpc[c] = "idle"
    /\ cres[c].err = KeyExpired /\ cres[c].sync = "ok"
    /\ ~Has(data, cop[c].key)
    /\ ~file.partial /\ ~Has(Decode(file), cop[c].key)

\* C15: a Delete of a key that is not in the map answers "key not found" and
\* changes nothing; a Delete of a key that is in the map and has not expired
\* removes it from the map and calls Sync, and when Sync succeeds it returns
\* nil and the key is neither in the map nor in the file.
C15_DeleteRemoves ==
  [][\A c \in Callers :
        /\ WriteBegins(c, "delete") =>
             LET k == Head(chan.writeOps).key IN
             IF ~Has(data, k)
             THEN /\ cres'[c].err = KeyNotFound /\ cpc'[c] = "idle"
                  /\ data' = data /\ file' = file
             ELSE Live(data[k], now) =>
                  /\ wpc'["writeWorker"] = "sync"
                  /\ ~Has(data', k)
        /\ (/\ WriteEnds(c, "delete")
            /\ Live(wcur["writeWorker"].pre[wcur["writeWorker"].op.key], now)
            /\ cres'[c].sync = "ok")
             => /\ cres'[c].err = Nil
                /\ ~Has(data', wcur["writeWorker"].op.key)
                /\ ~file'.partial
                /\ ~Has(Decode(file'), wcur["writeWorker"].op.key)]_vars

\* C15 witness: a Delete has returned nil; its key is neither in the map nor
\* in the file, and the key it did not touch is still in both.
C15_Witness ==
  \E c \in Callers :
    /\ cop[c].action = "delete" /\ cpc[c] = "idle"
    /\ cres[c].err = Nil /\ cres[c].sync = "ok"
    /\ ~Has(data, cop[c].key)
    /\ ~file.partial /\ Decode(file) = data
    /\ data # EmptyMap

\* C16: when the Sync of a Delete of an unexpired key fails, the caller gets
\* the persistence error and the entry is back under its key; every key
\* holds what it held before the call (the map is what it was before the
\* call when no sweep ran in between).
C16_DeleteRollsBack ==
  [][\A c \in Callers :
        (/\ WriteEnds(c, "delete")
         /\ Live(wcur["writeWorker"].pre[wcur["writeWorker"].op.key], now)
         /\ cres'[c].sync \in {"createFails", "encodeFails"})
        => LET cur == wcur["writeWorker"] IN
           /\ cres'[c].err = SyncErr
           /\ Has(data', cur.op.key) /\ data'[cur.op.key] = cur.pre[cur.op.key]
           /\ \A k \in DOMAIN data' : Has(cur.pre, k) /\ data'[k] = cur.pre[k]
           /\ sweeps = 0 => data' = cur.pre]_vars

\* C16 witness: a Delete whose Sync failed after truncating the file has
\* returned the persistence error and its key is in the map.
C16_Witness ==
  \E c \in Callers :
    /\ cop[c].action = "delete" /\ cpc[c] = "idle"
    /\ cres[c].err = SyncErr /\ cres[c].sync = "encodeFails"
    /\ Has(data, cop[c].key)

\* C17: a Delete of a key that is in the map and has expired removes it and
\* calls Sync, bound to answer "key expired" if Sync succeeds; and when that
\* Sync fails the caller gets the persistence error.
C17_DeleteExpired ==
  [][\A c \in Callers :
        /\ (WriteBegins(c, "delete") /\ Has(data, Head(chan.writeOps).key)
                                    /\ ~Live(data[Head(chan.writeOps).key], now))
             => /\ wpc'["writeWorker"] = "sync"
                /\ ~Has(data', Head(chan.writeOps).key)
                /\ wcur'["writeWorker"].ok = KeyExpired
        /\ (/\ WriteEnds(c, "delete")
            /\ ~Live(wcur["writeWorker"].pre[wcur["writeWorker"].op.key], now)
            /\ cres'[c].sync \in {"createFails", "encodeFails"})
             => cres'[c].err = SyncErr]_vars

\* C18: an Update that has answered "entry does not exist" found no entry
\* and left none, and once an Update has answered "entry expired" the key is
\* neither in the map nor in the file.
C18_UpdateEvictsExpired ==
  \A c \in Callers :
    (cop[c].action = "update" /\ cpc[c] = "idle")
    => /\ cres[c].err = EntryNotExists => ~Has(data, cop[c].key)
       /\ cres[c].err = EntryExpired
            => ~Has(data, cop[c].key) /\ ~Has(Decode(file), cop[c].key)

\* C19: an Update of a key that is in the map and has not expired, whose new
\* entry is longer than the limit on an entry, answers "json size exceeds
\* limit"; one whose new entry does not fit in the storage limit next to the
\* file answers "no space available"; in both cases the map is unchanged.
C19_UpdateChecksSize ==
  [][\A c \in Callers :
        (/\ WriteBegins(c, "update")
         /\ Has(data, Head(chan.writeOps).key)
         /\ Live(data[Head(chan.writeOps).key], now))
        => LET v == Head(chan.writeOps).value
               tooBig == JsonLen(v) > EntrySizeLimitMB * KB * KB
               full == FileBytes(file) + JsonLen(v) > StorageLimitMB * KB * KB
           IN /\ tooBig => cres'[c].err = JsonSizeExceedsLimit /\ data' = data
              /\ (~tooBig /\ full) => cres'[c].err = NotAvailabeSpace /\ data' = data]_vars

\* C20: an Update that returns nil leaves the created_at of the entry what it
\* was before the Update.
C20_UpdateKeepsCreatedAt ==
  [][\A c \in Callers :
        (WriteEnds(c, "update") /\ cres'[c].err = Nil)
        => LET cur == wcur["writeWorker"] IN
           /\ data'[cur.op.key].value = cur.op.value.value
           /\ data'[cur.op.key].created_at = cur.pre[cur.op.key].created_at]_vars

\* C21: a BatchCreate that returns nil leaves every key of the batch mapped to
\* its batch entry; one that returns an error, whether before any Sync or
\* after a Sync, leaves the map what it was before the call (no sweep having
\* run in between).
C21_BatchAllOrNothing ==
  [][\A c \in Callers :
        /\ (WriteBegins(c, "batchCreate") /\ cpc'[c] = "idle")
             => cres'[c].err # Nil /\ data' = data
        /\ WriteEnds(c, "batchCreate") =>
             LET cur == wcur["writeWorker"] IN
             IF cres'[c].err = Nil
             THEN \A k \in DOMAIN cur.op.batchData :
                    Has(data', k) /\ data'[k] = cur.op.batchData[k]
             ELSE sweeps = 0 => data' = cur.pre]_vars

\* C22: a BatchCreate of more than BatchLimit entries answers "batch limit
\* count exceeds" at once, whatever its keys, and changes neither the map nor
\* the file; one of exactly BatchLimit entries whose keys are all absent
\* inserts them all and calls Sync, and returns nil with every key stored
\* when Sync succeeds.
C22_BatchLimit ==
  [][\A c \in Callers :
        /\ WriteBegins(c, "batchCreate") =>
             LET b == Head(chan.writeOps).batchData IN
             /\ Cardinality(DOMAIN b) > BatchLimit
                  => /\ cres'[c].err = BatchLimitCountExceeds /\ cpc'[c] = "idle"
                     /\ data' = data /\ file' = file
             /\ (Cardinality(DOMAIN b) = BatchLimit /\ DOMAIN b \cap DOMAIN data = {})
                  => /\ wpc'["writeWorker"] = "sync"
                     /\ wcur'["writeWorker"].ok = Nil
                     /\ data' = PutAll(data, b)
        /\ (WriteEnds(c, "batchCreate") /\ cres'[c].sync = "ok"
              /\ Cardinality(DOMAIN wcur["writeWorker"].op.batchData) = BatchLimit)
             => /\ cres'[c].err = Nil
                /\ \A k \in DOMAIN wcur["writeWorker"].op.batchData :
                     Has(data', k) /\ Has(Decode(file'), k)]_vars

\* C22 witness: a BatchCreate of BatchLimit entries has returned nil and the
\* map holds its keys next to the key created before it.
C22_Witness ==
  \E c \in Callers :
    /\ cop[c].action = "batchCreate" /\ cpc[c] = "idle"
    /\ Cardinality(DOMAIN cop[c].batchData) = BatchLimit
    /\ cres[c].err = Nil
    /\ DOMAIN cop[c].batchData \subseteq DOMAIN data
    /\ Cardinality(DOMAIN data) = BatchLimit + 1

\* C22 witness of the refusal: a BatchCreate of BatchLimit + 1 entries, one
\* of them a key that is stored, has been answered "batch limit count
\* exceeds" and the map holds that key only.
C22_WitnessRefused ==
  \E c \in Callers :
    /\ cop[c].action = "batchCreate" /\ cpc[c] = "idle"
    /\ Cardinality(DOMAIN cop[c].batchData) = BatchLimit + 1
    /\ cres[c].err = BatchLimitCountExceeds
    /\ DOMAIN data = {"a"}

\* The write worker takes, in this step, a Create of an absent key or an
\* Update of a stored, unexpired key for caller c, with an entry within the
\* limit on an entry: the operation has come to its capacity check.
ReachesQuotaCheck(c) ==
  /\ (WriteBegins(c, "create") \/ WriteBegins(c, "update"))
  /\ LET op == Head(chan.writeOps) IN
     /\ Has(data, op.key) <=> op.action = "update"
     /\ Has(data, op.key) => Live(data[op.key], now)
     /\ isValidJson(op.value).err = Nil

\* C23: a Create or an Update that comes to its capacity check is admitted
\* (the entry is put in the map and Sync is called) exactly when the size of
\* the file plus the size of the incoming entry is at most the storage limit;
\* otherwise it answers "no space available" and changes neither the map nor
\* the file.
C23_QuotaAdmission ==
  [][\A c \in Callers : ReachesQuotaCheck(c) =>
        LET op == Head(chan.writeOps) IN
        IF FileBytes(file) + JsonLen(op.value) <= StorageLimitBytes
        THEN /\ wpc'["writeWorker"] = "sync"
             /\ Has(data', op.key) /\ data'[op.key] = op.value
        ELSE /\ cres'[c].err = NotAvailabeSpace /\ cpc'[c] = "idle"
             /\ data' = data /\ file' = file]_vars

\* C23 for Create alone: a Create of an absent key is admitted exactly when
\* the size of the file plus the size of its entry is at most the storage
\* limit, and a Create that is not admitted changes nothing.
C23_CreateAdmission ==
  [][\A c \in Callers : (ReachesQuotaCheck(c) /\ WriteBegins(c, "create")) =>
        LET op == Head(chan.writeOps) IN
        IF FileBytes(file) + JsonLen(op.value) <= StorageLimitBytes
        THEN /\ wpc'["writeWorker"] = "sync"
             /\ Has(data', op.key) /\ data'[op.key] = op.value
        ELSE /\ cres'[c].err = NotAvailabeSpace /\ cpc'[c] = "idle"
             /\ data' = data /\ file' = file]_vars

\* A Create whose entry is exactly as long as what is left has returned nil.
C23_WitnessAtLimit ==
  \E c \in Callers :
    /\ cop[c].action = "create" /\ cpc[c] = "idle" /\ cres[c].err = Nil
    /\ JsonLen(cop[c].value) = Headroom
    /\ Has(data, "a") /\ FileBytes(file) > StorageLimitBytes

\* A Create whose entry is one byte longer than what is left has been refused.
C23_WitnessOverLimit ==
  \E c \in Callers :
    /\ cop[c].action = "create" /\ cpc[c] = "idle"
    /\ cres[c].err = NotAvailabeSpace
    /\ JsonLen(cop[c].value) = Headroom + 1
    /\ data = BulkMap /\ FileBytes(file) = StorageLimitBytes - Headroom

\* The entry e is longer, as JSON, than the limit on an entry.
TooLarge(e) == JsonLen(e) > EntrySizeLimitMB * KB * KB

\* C24 as stated: a Create whose entry is longer than the limit on an entry
\* answers "json size exceeds limit", whatever its key.
C24_CreateTooLarge ==
  [][\A c \in Callers :
        (WriteBegins(c, "create") /\ TooLarge(Head(chan.writeOps).value))
        => cres'[c].err = JsonSizeExceedsLimit /\ cpc'[c] = "idle"]_vars

\* C24 amended: a Create of a key within the length limit that is not in the
\* map answers "json size exceeds limit" exactly when the entry it passes is
\* longer than the limit on an entry, and then changes neither the map nor
\* the file; a Create of a key that is too long answers "key size exceeds
\* limit" and one of a key that is in the map and has not expired answers
\* "entry already exists", however long the entry is, and changes nothing
\* either.
C24_CreateTooLargeOnAbsentKey ==
  [][\A c \in Callers : WriteBegins(c, "create") =>
        LET op == Head(chan.writeOps) IN
        /\ (ByteLen(op.key) > MaxKeyLen /\ TooLarge(op.value)) =>
             /\ cres'[c].err = KeySizeExceedsLimit /\ cpc'[c] = "idle"
             /\ data' = data /\ file' = file
        /\ (ByteLen(op.key) <= MaxKeyLen /\ ~Has(data, op.key)) =>
             /\ TooLarge(op.value) <=> cres'[c].err = JsonSizeExceedsLimit
             /\ TooLarge(op.value) => cpc'[c] = "idle" /\ data' = data /\ file' = file
        /\ (Has(data, op.key) /\ Live(data[op.key], now) /\ TooLarge(op.value)) =>
             /\ cres'[c].err = EntryAlreadyExists /\ cpc'[c] = "idle"
             /\ data' = data /\ file' = file]_vars

\* C24 witness: a Create with an entry longer than the limit has been answered
\* "json size exceeds limit" and its key is not in the map, which holds
\* another key, created with a short entry before.
C24_Witness ==
  \E c \in Callers :
    /\ cop[c].action = "create" /\ cpc[c] = "idle"
    /\ TooLarge(cop[c].value)
    /\ cres[c].err = JsonSizeExceedsLimit
    /\ ~Has(data, cop[c].key)
    /\ data # EmptyMap

\* The keys a write operation carries: its key, or the keys of its batch.
KeysOf(op) == IF op.action = "batchCreate" THEN DOMAIN op.batchData ELSE {op.key}

\* C25: a Create or a BatchCreate that carries a key of more than MaxKeyLen
\* characters is refused at once, a Create with "key size exceeds limit", and
\* changes neither the map nor the file; a Create of an absent key of exactly
\* MaxKeyLen characters is admitted; and no key of more than MaxKeyLen
\* characters is ever in the map.
C25_KeyLengthLimit ==
  [][\A c \in Callers :
        (WriteBegins(c, "create") \/ WriteBegins(c, "batchCreate")) =>
          LET op == Head(chan.writeOps) IN
          /\ (\E k \in KeysOf(op) : Len(k) > MaxKeyLen)
               => /\ cres'[c].err # Nil /\ cres'[c].err # "none" /\ cpc'[c] = "idle"
                  /\ op.action = "create" => cres'[c].err = KeySizeExceedsLimit
                  /\ data' = data /\ file' = file
          /\ (op.action = "create" /\ Len(op.key) = MaxKeyLen /\ ~Has(data, op.key))
               => /\ wpc'["writeWorker"] = "sync"
                  /\ Has(data', op.key)
          /\ \A k \in DOMAIN data' : Len(k) <= MaxKeyLen]_vars

\* C25 in bytes: the same with the length of a key taken as its number of
\* bytes, which is what no key in the map ever exceeds.
C25_KeyLengthLimitInBytes ==
  [][\A c \in Callers :
        (WriteBegins(c, "create") \/ WriteBegins(c, "batchCreate")) =>
          LET op == Head(chan.writeOps) IN
          /\ (\E k \in KeysOf(op) : ByteLen(k) > MaxKeyLen)
               => /\ cres'[c].err # Nil /\ cres'[c].err # "none" /\ cpc'[c] = "idle"
                  /\ op.action = "create" => cres'[c].err = KeySizeExceedsLimit
                  /\ data' = data /\ file' = file
          /\ (op.action = "create" /\ ByteLen(op.key) = MaxKeyLen /\ ~Has(data, op.key))
               => /\ wpc'["writeWorker"] = "sync"
                  /\ Has(data', op.key)
          /\ \A k \in DOMAIN data' : ByteLen(k) <= MaxKeyLen]_vars

\* A Create of the key of 32 ASCII characters has returned nil, and the key is
\* in the map and in the file.
C25_WitnessInBytes ==
  \E c \in Callers :
    /\ cop[c].action = "create" /\ cpc[c] = "idle"
    /\ cop[c].key = Key32 /\ cres[c].err = Nil
    /\ Has(data, Key32) /\ Has(Decode(file), Key32)

\* The actions of the write queue.
WriteActions == {"create", "update", "delete", "batchCreate"}

\* The operations waiting in the two queues.
Queued == {chan.writeOps[i] : i \in 1..Len(chan.writeOps)}
            \cup {chan.readOps[i] : i \in 1..Len(chan.readOps)}

\* The callers whose write has been taken from its queue and has not been
\* answered: the writes between the start of their validation and the return
\* of their Sync.
WritesInFlight ==
  {c \in Callers : cpc[c] = "wait" /\ cop[c].action \in WriteActions /\ cop[c] \notin Queued}

\* C26: at most one write is between the start of its validation and the
\* return of its Sync, it is the one the write worker is executing, and a
\* write is taken from the queue only when no write is in that sequence.
C26_WritesTotallyOrdered ==
  [][/\ Cardinality(WritesInFlight) <= 1
     /\ \A c \in WritesInFlight :
          wpc["writeWorker"] = "sync" /\ wcur["writeWorker"].op = cop[c]
     /\ \A c \in Callers : \A a \in WriteActions :
          WriteBegins(c, a) => WritesInFlight = {}
     /\ \A c \in Callers : \A a \in WriteActions :
          WriteEnds(c, a) => WritesInFlight = {c} /\ WritesInFlight' = {}]_vars

\* C26 witness: a write of one client is at its Sync while the writes of the
\* two other clients wait in the queue.
C26_Witness ==
  /\ wpc["writeWorker"] = "sync"
  /\ Cardinality(WritesInFlight) = 1
  /\ Len(chan.writeOps) = 2
  /\ \A c \in Callers : cpc[c] = "wait" /\ cop[c].action \in WriteActions

\* The write worker is inside create, update, delete or batchCreate: it has
\* changed the map and its Sync has not returned.
WriteInFlight == wpc["writeWorker"] = "sync"

\* C27: the read worker never executes a read while the write worker is
\* inside a write: no Read is taken up, and none is at the Sync of its
\* eviction, while a write is in flight, and no write is taken up while a
\* Read is at that Sync; so the map is never accessed by both at once.
C27_NoReadDuringWrite ==
  [][/\ \A c \in Callers : ReadBegins(c) => ~WriteInFlight
     /\ ~(WriteInFlight /\ wpc["readWorker"] = "sync")
     /\ \A c \in Callers : \A a \in WriteActions :
          WriteBegins(c, a) => wpc["readWorker"] # "sync"
     /\ crashed' # "concurrent map access"]_vars

\* The cleanup worker is inside cleanupExpiredKeys: between the start of its
\* range over the map and the return of its Sync.
Sweeping == spc \in {"range", "lock"}

\* C28: while the cleanup worker is inside cleanupExpiredKeys neither worker
\* is inside an operation and none takes one up, and a sweep does not start
\* while a worker is inside an operation; so the map is never accessed by the
\* sweep and a worker at once.
C28_SweepExclusive ==
  [][/\ ~(Sweeping /\ \E w \in Workers : wpc[w] = "sync")
     /\ \A c \in Callers : \A a \in WriteActions : WriteBegins(c, a) => ~Sweeping
     /\ \A c \in Callers : ReadBegins(c) => ~Sweeping
     /\ crashed' # "concurrent map access"]_vars

\* C29: a worker that is inside an operation holds the mutex of every key the
\* operation touches, the keys of the batch for a BatchCreate, and the
\* cleanup worker holds the mutex of a key from its test of the key's expiry
\* to its Sync.
C29_PerKeyLockHeld ==
  /\ \A w \in Workers :
       wpc[w] = "sync" => \A k \in KeysOf(wcur[w].op) : held[k] = w
  /\ spc = "lock" => held[scur] = "cleanup"

\* The operation of caller c is in its queue or in the hands of a worker.
Enqueued(c) == cpc[c] = "wait"

\* The call of caller c has returned a result.
Answered(c) == cpc[c] = "idle" /\ cres[c].err # "none"

\* C30: under fair scheduling of the workers every enqueued operation is
\* eventually answered, and it is answered once: the result of a call that
\* has returned changes only when the caller makes its next call.
C30_EveryOperationAnswered ==
  /\ \A c \in LifeCallers : Enqueued(c) ~> Answered(c)
  /\ [][\A c \in LifeCallers :
          (Answered(c) /\ cres'[c] # cres[c]) => calls' = calls + 1]_vars

\* The callers of the concurrent phase whose call has returned.
MixReturned == {c \in Callers : cpc[c] = "idle" /\ cres[c].err # "none"}

\* C31: with Creates of distinct fresh keys and Reads of a stored key issued
\* together, no call is cut off by the end of the process, every Create
\* that has returned returned nil, every Read that has returned returned the
\* stored entry, and once both Creates have returned the map holds exactly
\* the stored key and the created keys with their entries.
C31_ConcurrentCreateRead ==
  /\ Running
  /\ \A c \in MixReturned :
       IF c \in MixCreators THEN cres[c].err = Nil
       ELSE cres[c].err = Nil /\ cres[c].value = StoredMap["a"]
  /\ MixCreators \subseteq MixReturned =>
       data = PutAll(StoredMap, [k \in {MixKeyOf(c) : c \in MixCreators} |->
                                   cop[CHOOSE c \in MixCreators : MixKeyOf(c) = k].value])

\* The cleanup worker returns, in this step, from cleanupExpiredKeys: its range
\* is over and its Sync returns.
SweepEnds == spc = "range" /\ spc' = "select"

\* The range of the cleanup worker produces, in this step, the key k.
SweepScans(k) == spc = "range" /\ k \notin srange.seen /\ k \in srange'.seen

\* C32: when a tick completes with no concurrent operation, no entry of the
\* map is expired, the map is the one the scan left (a failed Sync restores
\* nothing), the Sync of the tick is the only write of the file, and only
\* expired entries have been removed.
C32_SweepEvictsExpired ==
  [][/\ SweepEnds =>
          /\ \A k \in DOMAIN data' : ~IsExpired(data', k, now)
          /\ data' = data
     /\ file' # file => SweepEnds
     /\ data' # data => \E k \in DOMAIN data : data' = Remove(data, k) /\ IsExpired(data, k, now)]_vars

\* C32, amended: with no concurrent operation, the scan reaches every entry
\* before the tick completes; an entry that is expired when the scan reaches
\* it, and no other, is removed by the cleanup worker's next step; the tick
\* writes the file once, at its end, and a failure of that Sync leaves the map
\* as the scan left it.  (An entry whose lifetime ends after the scan has
\* passed it stays in the map until a later tick.)
C32_SweepEvictsExpiredAtScan ==
  [][/\ \A k \in DOMAIN data :
          SweepScans(k) => IF IsExpired(data, k, now)
                           THEN spc' = "lock" /\ scur' = k /\ data' = data
                           ELSE spc' = "range" /\ data' = data
     /\ (spc = "lock" /\ spc' # "lock") => data' = Remove(data, scur) /\ spc' = "range"
     /\ data' # data => \E k \in DOMAIN data : data' = Remove(data, k) /\ IsExpired(data, k, now)
     /\ SweepEnds =>
          /\ DOMAIN data \subseteq srange.seen
          /\ data' = data
          /\ file' \in {Encode(data), file, Partial}
     /\ file' # file => SweepEnds]_vars

\* C32 witness: a tick has completed whose Sync failed before it wrote the
\* file: the expired entry "a", still in the file, is gone from the map and
\* the entry "b", which never expires, is there.
C32_Witness ==
  /\ sweeps = 1 /\ spc = "select"
  /\ Has(Decode(file), "a") /\ ~Has(data, "a")
  /\ Has(data, "b") /\ Has(Decode(file), "b")

\* C33: once a NewDB on the path of the running store has failed with "locked
\* by another process", the file and the map of the running store are what
\* the store's own operations made them: between its operations, whose Syncs
\* all succeed here, the file decodes to the map.
C33_FailedOpenHasNoEffect ==
  (otherErr = LockedByAnotherProcess /\ wpc["writeWorker"] # "sync")
    => ~file.partial /\ Decode(file) = data

\* C34: a NewDB that finds on its path a file that cannot be decoded goes no
\* further than Load: it does not go on to take the lock and return a handle.
C34_CorruptSnapshotRefused ==
  [][(other = "none" /\ Load(EmptyMap, file).err # Nil) => other' # "loaded"]_vars

\* C35: when the Sync of a write fails and the write is rolled back, the file
\* is the snapshot that was there before the write, not a truncated or partial
\* one, and, if that snapshot was the map before the write, it is the map after
\* the rollback.
C35_FailedSyncKeepsSnapshot ==
  [][\A c \in Callers : \A a \in WriteActions :
        (WriteEnds(c, a) /\ cres'[c].err = SyncErr) =>
          /\ file' = file /\ ~file'.partial
          /\ Decode(file) = wcur["writeWorker"].pre => Decode(file') = data']_vars

\* C36: the write queue is first in, first out, and its head is served alone:
\* a write that is enqueued goes behind the writes already waiting; the write
\* that is taken up is the one at the head, it is taken up only when every
\* write enqueued before it has been answered, and it is the one the write
\* worker then executes or answers; and when a write is answered, the writes
\* enqueued after it are all still waiting in their order.
C36_WritesInQueueOrder ==
  [][/\ Len(chan'.writeOps) > Len(chan.writeOps) =>
          \E c \in Callers :
            /\ cpc[c] = "send" /\ cpc'[c] = "wait"
            /\ chan'.writeOps = Append(chan.writeOps, cop[c])
     /\ Len(chan'.writeOps) < Len(chan.writeOps) =>
          /\ chan'.writeOps = Tail(chan.writeOps)
          /\ WritesInFlight = {}
          /\ LET op == Head(chan.writeOps) IN
             \/ wpc'["writeWorker"] = "sync" /\ wcur'["writeWorker"].op = op
             \/ cpc'[op.response] = "idle" /\ cres'[op.response].err # "none"
     /\ \A c \in Callers : \A a \in WriteActions :
          WriteEnds(c, a) => chan'.writeOps = chan.writeOps]_vars

\* C36 witness: the write of one client has been answered, the write of a
\* second, enqueued behind it, is at its Sync, and the write of a third,
\* enqueued last, waits in the queue.
C36_Witness ==
  \E a, b, c \in Callers :
    /\ a # b /\ b # c /\ a # c
    /\ cpc[a] = "idle" /\ cop[a].action \in WriteActions /\ cres[a].err = Nil
    /\ wpc["writeWorker"] = "sync" /\ wcur["writeWorker"].op = cop[b]
    /\ chan.writeOps = <<cop[c]>> /\ cpc[c] = "wait"

\* The callers whose Read has been taken from the queue and has not been
\* answered: the Reads that are executing.
ReadsInFlight ==
  {c \in Callers : cpc[c] = "wait" /\ cop[c].action = "read" /\ cop[c] \notin Queued}

\* C37: a Read does not have to wait for another Read to complete before it
\* starts: while a Read is executing, a Read that waits at the head of the
\* queue, for a key whose mutex is free, can be taken up.
C37_ReadsRunConcurrently ==
  (ReadsInFlight # {} /\ chan.readOps # <<>> /\ held[Head(chan.readOps).key] = "none")
    => ENABLED WorkerBegin("readWorker")

\* C38: every entry that the cleanup worker's delete removes from the map is
\* expired at the moment of the delete.
C38_SweeperRemovesOnlyExpired ==
  [][(spc = "lock" /\ spc' = "range") =>
        \A k \in DOMAIN data : ~Has(data', k) => IsExpired(data, k, now)]_vars

\* C39: the cleanup worker never waits for a mutex it holds itself; every
\* tick that has started completes; an operation waiting in the write queue
\* is eventually taken up; and a Close that has given the stop signal
\* eventually returns.
C39_NoDeadlock ==
  /\ [](~(spc = "lock" /\ held[scur] = "cleanup"))
  /\ (spc \in {"range", "lock"}) ~> (spc = "select")
  /\ (chan.writeOps # <<>>) ~> (chan.writeOps = <<>>)
  /\ (cpc["c2"] = "close_writeOps") ~> (cpc["c2"] = "idle")

\* C40: a call that has found the store open, and is about to send, never
\* faces a queue that Close has closed, and no send on a closed queue ends
\* the process.
C40_NoSendOnClosedQueue ==
  /\ \A c \in LifeCallers : cpc[c] = "send" => ~chanClosed[ChanFor(cop[c])]
  /\ crashed # "send on closed channel"

====
